---- MODULE Spec2Model ----
(***************************************************************************)
(* A model of the home-DIY-repair synthetic data pipeline:                 *)
(*   scripts/merge_corrected_qa.py   the merge-back of corrected records   *)
(*   diy_repair/failure_labeling.py  the six-mode LLM judge                *)
(*   diy_repair/models.py            the structural validator              *)
(*   diy_repair/validation_phase.py  the batch validator                   *)
(*   diy_repair/correction_phase.py  the corrector                         *)
(*   diy_repair/generation_phase.py  the generator                         *)
(*   main.py                         the stage orchestration               *)
(* Each function studied alone has its own specification over the shared   *)
(* variables, which leaves the other components' variables at their idle   *)
(* values; SpecPipeline runs main.py and the merge script one after the    *)
(* other over the files of the output directory.                           *)
(***************************************************************************)
EXTENDS Integers, Sequences, FiniteSets, TLC

VARIABLES
    pc,               \* position of the modelled run
    files,            \* the names of the files that exist in the output directory
    valid_qa,         \* content of structurally_valid_qa_pairs.json
    failure_labeled,  \* content of failure_labeled_data.json
    corrected_list,   \* content of corrected_qa_pairs.json
    merged,           \* content of qa_after_correction.json
    judge_in,         \* evaluate_qa_pair: the record and trace id passed in
    results,          \* evaluate_qa_pair: the results dict
    failure_count,    \* evaluate_qa_pair: the running failure count
    mode_idx,         \* evaluate_qa_pair: position in self.failure_modes
    gateway_log,      \* what the gateway did on each call, in call order
    response,         \* evaluate_single_failure_mode: the gateway's outcome
    evaluated,        \* evaluate_single_failure_mode: what it returned
    json_str,         \* validate_json_structure: the raw text, by its parse
    validated,        \* validate_json_structure: what it returned
    batch,            \* validate_batch: the results as they were passed in
    gen_results,      \* validate_batch: the result objects, as it leaves them
    valid_results,    \* validate_batch: the list it returns
    summary,          \* validate_batch: the ValidationSummary it returns
    args,             \* main: the parsed command line of the running process
    generation_file,  \* content of generation_results.json
    next_uuid,        \* uuid4: how many identifiers have been drawn, plus one
    df,               \* FailureAnalyzer: the labeled data it was made with
    report,           \* content of failure_analysis_report.json
    call_modes,       \* evaluate_qa_pair: the mode each gateway call was for
    prompt_in,        \* a prompt builder: the record it is given
    prompt_mode,      \* evaluate_single_failure_mode: the mode it is given
    prompt,           \* a prompt builder: the prompt it made
    samples,          \* human labeling: the samples the session loaded
    human_labels,     \* content of human_labels.json
    to_label,         \* human labeling: the samples still to be shown
    labels_list,      \* human labeling: the labels held in memory
    names             \* human labeling: the modes entered for the sample shown

mergeVars == <<files, valid_qa, failure_labeled, corrected_list, merged>>
judgeVars == <<judge_in, results, failure_count, mode_idx, gateway_log>>
evalVars == <<response, evaluated>>
validateVars == <<json_str, validated>>
batchVars == <<batch, gen_results, valid_results, summary>>
mainVars == <<args, generation_file, next_uuid>>
analysisVars == <<df, report>>
orderVars == <<call_modes>>
promptVars == <<prompt_in, prompt_mode, prompt>>
humanVars == <<samples, human_labels, to_label, labels_list, names>>
moreVars == <<promptVars, humanVars>>
vars ==
    <<pc, mergeVars, judgeVars, evalVars, validateVars, batchVars, mainVars,
      analysisVars, orderVars, moreVars>>

\* the variables of the components that a component's specification leaves
\* alone
restOfMerge ==
    <<judgeVars, evalVars, validateVars, batchVars, mainVars, analysisVars, orderVars,
      moreVars>>
restOfJudge ==
    <<mergeVars, evalVars, validateVars, batchVars, mainVars, analysisVars, orderVars,
      moreVars>>
restOfEval ==
    <<mergeVars, judgeVars, validateVars, batchVars, mainVars, analysisVars, orderVars,
      moreVars>>
restOfValidate ==
    <<mergeVars, judgeVars, evalVars, batchVars, mainVars, analysisVars, orderVars,
      moreVars>>
restOfAnalysis ==
    <<mergeVars, judgeVars, evalVars, validateVars, batchVars, mainVars,
      orderVars, moreVars>>
restOfBatch ==
    <<mergeVars, judgeVars, evalVars, validateVars, mainVars, analysisVars, orderVars,
      moreVars>>

(***************************************************************************)
(* Python values                                                           *)
(***************************************************************************)
\* Python's None (a JSON null) where a record may stand
None == [none |-> TRUE]

\* the sequences over S of length at most n
SeqUpTo(S, n) == UNION {[1..k -> S] : k \in 0..n}

SetMax(S) == CHOOSE x \in S : \A y \in S : y <= x
SetMin(S) == CHOOSE x \in S : \A y \in S : x <= y

\* a dict with no key
EmptyDict == [k \in {} |-> 0]

\* the element of a set of one element
TheOne(S) == CHOOSE x \in S : TRUE

(***************************************************************************)
(* Strings. A string is the sequence of its characters.                    *)
(***************************************************************************)
IsSpace(c) == c = " "

\* str.strip()
Strip(s) ==
    LET idx == {i \in DOMAIN s : ~IsSpace(s[i])}
    IN  IF idx = {} THEN <<>> ELSE SubSeq(s, SetMin(idx), SetMax(idx))

DigitChars == <<"0", "1", "2", "3", "4", "5", "6", "7", "8", "9">>
IsDigit(c) == \E i \in DOMAIN DigitChars : DigitChars[i] = c
DigitVal(c) == (CHOOSE i \in DOMAIN DigitChars : DigitChars[i] = c) - 1

RECURSIVE DecValue(_)
DecValue(ds) ==
    IF ds = <<>> THEN 0
    ELSE 10 * DecValue(SubSeq(ds, 1, Len(ds) - 1)) + DigitVal(ds[Len(ds)])

\* int(s) of a string: surrounding whitespace is dropped, then an optional
\* sign, then decimal digits, single underscores allowed between digits;
\* anything else raises ValueError
PyInt(s) ==
    LET t == Strip(s)
        signed == t # <<>> /\ t[1] \in {"+", "-"}
        body == IF signed THEN Tail(t) ELSE t
        wellFormed ==
            /\ body # <<>>
            /\ \A i \in DOMAIN body : IsDigit(body[i]) \/ body[i] = "_"
            /\ body[1] # "_" /\ body[Len(body)] # "_"
            /\ \A i \in 1..(Len(body) - 1) : ~(body[i] = "_" /\ body[i + 1] = "_")
        magnitude == DecValue(SelectSeq(body, IsDigit))
    IN  IF ~wellFormed THEN [ok |-> FALSE, val |-> 0]
        ELSE [ok |-> TRUE,
              val |-> IF signed /\ t[1] = "-" THEN 0 - magnitude ELSE magnitude]

(***************************************************************************)
(* Bounds of the model                                                     *)
(***************************************************************************)
\* longest record list read by the merge script
MaxRecs == 2
\* longest raw judge response, in characters
MaxRawLen == 3
\* blanks put on each side of a padded text
Pad == 1
\* longest batch of generation results handed to validate_batch
MaxBatch == 3
\* largest --samples of a run of main.py
MaxSamples == 2
\* how many identifiers uuid4 hands out in all
MaxUuid == 2
\* longest small data set handed to the analyzer
MaxRows == 3
\* most failed rows of a large data set handed to the analyzer
MaxFailed == 79
\* most gateway calls of one record, taken in any order, that do not pass
MaxBadCalls == 2

(***************************************************************************)
(* Idle values: a component that a specification does not run             *)
(***************************************************************************)
NoOutcome == [raised |-> FALSE, text |-> <<>>]
NotReturned == [returned |-> FALSE]
NoText == [parses |-> FALSE, object |-> FALSE, data |-> EmptyDict]

MergeIdle ==
    /\ files = {} /\ valid_qa = <<>> /\ failure_labeled = <<>>
    /\ corrected_list = <<>> /\ merged = <<>>
JudgeIdle ==
    /\ judge_in = None /\ results = EmptyDict /\ failure_count = 0
    /\ mode_idx = 0 /\ gateway_log = <<>>
EvalIdle == response = NoOutcome /\ evaluated = NotReturned
ValidateIdle == json_str = NoText /\ validated = NotReturned

BatchIdle ==
    /\ batch = <<>> /\ gen_results = <<>> /\ valid_results = <<>>
    /\ summary = NotReturned

MainIdle == args = None /\ generation_file = <<>> /\ next_uuid = 1

AnalysisIdle == df = <<>> /\ report = NotReturned
OrderIdle == call_modes = <<>>
PromptIdle == prompt_in = None /\ prompt_mode = "" /\ prompt = NotReturned
HumanIdle ==
    /\ samples = <<>> /\ human_labels = [state |-> "absent", entries |-> <<>>]
    /\ to_label = <<>> /\ labels_list = <<>> /\ names = <<>>
MoreIdle == PromptIdle /\ HumanIdle

OnlyAnalysis ==
    MergeIdle /\ JudgeIdle /\ EvalIdle /\ ValidateIdle /\ BatchIdle /\ MainIdle
    /\ OrderIdle /\ MoreIdle
OnlyMerge ==
    JudgeIdle /\ EvalIdle /\ ValidateIdle /\ BatchIdle /\ MainIdle /\ AnalysisIdle /\ OrderIdle
    /\ MoreIdle
OnlyJudge ==
    MergeIdle /\ EvalIdle /\ ValidateIdle /\ BatchIdle /\ MainIdle /\ AnalysisIdle /\ OrderIdle
    /\ MoreIdle
OnlyEval ==
    MergeIdle /\ JudgeIdle /\ ValidateIdle /\ BatchIdle /\ MainIdle /\ AnalysisIdle /\ OrderIdle
    /\ MoreIdle
OnlyValidate ==
    MergeIdle /\ JudgeIdle /\ EvalIdle /\ BatchIdle /\ MainIdle /\ AnalysisIdle /\ OrderIdle
    /\ MoreIdle
OnlyBatch ==
    MergeIdle /\ JudgeIdle /\ EvalIdle /\ ValidateIdle /\ MainIdle /\ AnalysisIdle /\ OrderIdle
    /\ MoreIdle

(***************************************************************************)
(* scripts/merge_corrected_qa.py                                           *)
(***************************************************************************)
\* the trace ids of the records on file (uuid4 strings, never empty)
TraceIds == {"t1", "t2"}
\* the content of an original record and of a corrected one; the content of
\* a record stands for its seven Q&A fields
OrigContent == {"Q1", "Q2"}
CorrContent == {"Q1c"}

\* a record of structurally_valid_qa_pairs.json: the Q&A fields and trace_id
ValidRecord == [trace_id : TraceIds, question : OrigContent]
\* a row of failure_labeled_data.json, as far as merge reads it
JudgeRow == [trace_id : TraceIds, overall_failure : {0, 1}]
\* an entry of corrected_qa_pairs.json, as far as merge reads it: the
\* corrector writes a qa_pair exactly when is_valid, and the file may hold
\* is_valid without a body
CorrEntry ==
    [trace_id : TraceIds, is_valid : BOOLEAN, qa_pair : {None}]
    \cup [trace_id : TraceIds, is_valid : {TRUE},
          qa_pair : [question : CorrContent]]

\* lists of records with pairwise distinct trace ids (uuid4 never repeats)
DistinctIds(s) == \A i, j \in DOMAIN s : s[i].trace_id = s[j].trace_id => i = j

\* line 41: failed_ids
FailedIds(fl) ==
    {fl[i].trace_id : i \in {j \in DOMAIN fl : fl[j].overall_failure = 1}}

\* line 45: the entries of the correction list that merge takes up
Usable(r) == r.trace_id # "" /\ r.is_valid /\ r.qa_pair # None

\* line 46: {**r["qa_pair"], "trace_id": tid}
CorrectedRecordNoId(r) ==
    [k \in DOMAIN r.qa_pair \cup {"trace_id"} |->
        IF k = "trace_id" THEN "" ELSE r.qa_pair[k]]
CorrectedRecord(r) ==
    [k \in DOMAIN r.qa_pair \cup {"trace_id"} |->
        IF k = "trace_id" THEN r.trace_id ELSE r.qa_pair[k]]

\* lines 42-46: corrected_by_id, a dict; a later entry overwrites an earlier
\* one with the same trace_id
CorrectedById(cl) ==
    LET idx == {i \in DOMAIN cl : Usable(cl[i])}
        keys == {cl[i].trace_id : i \in idx}
    IN  [t \in keys |->
            CorrectedRecord(cl[SetMax({i \in idx : cl[i].trace_id = t})])]

\* lines 48-54: the merged list
MergeRecordsIgnoringJudge(valid, fl, cl) ==
    LET byId == CorrectedById(cl)
    IN  [i \in 1..Len(valid) |->
            IF valid[i].trace_id \in DOMAIN byId
            THEN byId[valid[i].trace_id]
            ELSE valid[i]]
MergeRecords(valid, fl, cl) ==
    LET failed_ids == FailedIds(fl)
        byId == CorrectedById(cl)
    IN  [i \in 1..Len(valid) |->
            IF valid[i].trace_id \in failed_ids
               /\ valid[i].trace_id \in DOMAIN byId
            THEN byId[valid[i].trace_id]
            ELSE valid[i]]

\* config.py lines 15-23 and merge_corrected_qa.py lines 24-27: the files
MergeInputs == {"structurally_valid_qa", "failure_labeled_json", "corrected_qa"}
MergeOutput == "qa_after_correction"

\* the three input files of the merge script, each present or not; a file
\* that is absent has no content
MergeInit ==
    /\ pc = "merge_start"
    /\ files \in SUBSET MergeInputs
    /\ valid_qa \in IF "structurally_valid_qa" \in files
                    THEN {s \in SeqUpTo(ValidRecord, MaxRecs) : DistinctIds(s)}
                    ELSE {<<>>}
    /\ failure_labeled \in IF "failure_labeled_json" \in files
                           THEN SeqUpTo(JudgeRow, MaxRecs) ELSE {<<>>}
    /\ corrected_list \in IF "corrected_qa" \in files
                          THEN SeqUpTo(CorrEntry, MaxRecs) ELSE {<<>>}
    /\ merged = <<>>
    /\ OnlyMerge

\* lines 29-32: a missing input file ends the script with status 1
MergeMissingInput ==
    /\ pc = "merge_start"
    /\ ~(MergeInputs \subseteq files)
    /\ pc' = "merge_exit_1"
    /\ UNCHANGED <<mergeVars, restOfMerge>>

\* lines 34-63: load the three files, merge, write qa_after_correction.json
Merge ==
    /\ pc = "merge_start"
    /\ MergeInputs \subseteq files
    /\ merged' = MergeRecords(valid_qa, failure_labeled, corrected_list)
    /\ files' = files \cup {MergeOutput}
    /\ pc' = "merge_exit_0"
    /\ UNCHANGED <<valid_qa, failure_labeled, corrected_list>>
    /\ UNCHANGED restOfMerge

MergeNext == MergeMissingInput \/ Merge

SpecMerge == MergeInit /\ [][MergeNext]_vars

(***************************************************************************)
(* Properties of the merge script                                          *)
(***************************************************************************)
\* the trace id at position i of the valid set is marked failed by the judge
MarkedFailed(i) ==
    \E j \in DOMAIN failure_labeled :
        /\ failure_labeled[j].trace_id = valid_qa[i].trace_id
        /\ failure_labeled[j].overall_failure = 1
\* the entries of the correction set that are a valid correction of the
\* record at position i of the valid set
ValidCorrectionsOf(i) ==
    {j \in DOMAIN corrected_list :
        /\ corrected_list[j].trace_id = valid_qa[i].trace_id
        /\ corrected_list[j].is_valid
        /\ corrected_list[j].qa_pair # None}
\* merged[i] is the content of correction entry j under the trace id of
\* valid_qa[i]
HoldsCorrection(i, j) ==
    merged[i] = [trace_id |-> valid_qa[i].trace_id,
                 question |-> corrected_list[j].qa_pair.question]

\* C1: after a merge, each record of the valid set is replaced by a valid
\* correction of it if and only if its trace id is marked overall_failure = 1
\* in the judge set and the correction set holds a valid entry with a body
\* for that trace id; in every other case the original record is carried
\* through unchanged.
C1_MergeSubstitution ==
    pc = "merge_exit_0" =>
        /\ Len(merged) = Len(valid_qa)
        /\ \A i \in DOMAIN valid_qa :
              IF MarkedFailed(i) /\ ValidCorrectionsOf(i) # {}
              THEN /\ \E j \in ValidCorrectionsOf(i) : HoldsCorrection(i, j)
                   /\ merged[i] # valid_qa[i]
              ELSE merged[i] = valid_qa[i]

\* C1 witness: a merge that replaced one failed record by its correction and
\* carried another failed record through, its only correction being invalid
C1_Witness ==
    /\ pc = "merge_exit_0"
    /\ \E i, k \in DOMAIN valid_qa :
          /\ MarkedFailed(i) /\ ValidCorrectionsOf(i) # {}
          /\ merged[i] # valid_qa[i]
          /\ MarkedFailed(k) /\ ValidCorrectionsOf(k) = {}
          /\ \E j \in DOMAIN corrected_list :
                corrected_list[j].trace_id = valid_qa[k].trace_id
          /\ merged[k] = valid_qa[k]

\* C2: the merged output has the length of the valid set and, position by
\* position, its trace ids: no record is inserted, dropped, duplicated or
\* reordered, and a substituted record keeps the trace id it replaces.
C2_MergeKeepsTraceIds ==
    pc = "merge_exit_0" =>
        /\ Len(merged) = Len(valid_qa)
        /\ \A i \in DOMAIN valid_qa : merged[i].trace_id = valid_qa[i].trace_id

\* C2 witness: a merge of two records that substituted the second one
C2_Witness ==
    /\ pc = "merge_exit_0"
    /\ Len(valid_qa) = 2
    /\ merged[1] = valid_qa[1]
    /\ merged[2] # valid_qa[2]
    /\ merged[2].trace_id = valid_qa[2].trace_id

(***************************************************************************)
(* diy_repair/failure_labeling.py: the judge                               *)
(***************************************************************************)
\* lines 149-150: FAILURE_MODE_NAMES, in declaration order
FAILURE_MODE_NAMES ==
    <<"incomplete_answer", "safety_violations", "unrealistic_tools",
      "overcomplicated_solution", "missing_context", "poor_quality_tips">>
\* line 222: the key f"{failure_mode.name}_response"
ResponseKey(name) == name \o "_response"

\* what the gateway does on one call: it returns the text of the first
\* choice, or it raises with a message
Returned(text) == [raised |-> FALSE, text |-> text]
Raised(msg) == [raised |-> TRUE, text |-> msg]

\* line 204: f"Error: {str(e)}"
ErrorText(msg) == <<"E", "r", "r", "o", "r", ":", " ">> \o msg

\* what a call of evaluate_single_failure_mode gives its caller: a
\* (failure_score, raw_response) pair, or an exception that escapes it
Pair(score, raw) == [exc |-> FALSE, score |-> score, raw |-> raw]
Escapes(msg) == [exc |-> TRUE, score |-> 0, raw |-> msg]

\* lines 173-204: evaluate_single_failure_mode, given the gateway's outcome
EvaluateSingleFailureModeNoRangeCheck(outcome) ==
    IF outcome.raised THEN Pair(1, ErrorText(outcome.text))
    ELSE LET raw_response == Strip(outcome.text)
             parsed == PyInt(raw_response)
         IN  Pair(IF parsed.ok THEN parsed.val ELSE 1, raw_response)
EvaluateSingleFailureModeUncaught(outcome) ==
    IF outcome.raised THEN Escapes(outcome.text)
    ELSE LET raw_response == Strip(outcome.text)
             parsed == PyInt(raw_response)
         IN  Pair(IF parsed.ok /\ parsed.val \in {0, 1} THEN parsed.val ELSE 1,
                  raw_response)
EvaluateSingleFailureMode(outcome) ==
    IF outcome.raised
    THEN \* lines 202-204
         Pair(1, ErrorText(outcome.text))
    ELSE \* lines 194-201
         LET raw_response == Strip(outcome.text)
             parsed == PyInt(raw_response)
         IN  Pair(IF parsed.ok /\ parsed.val \in {0, 1} THEN parsed.val ELSE 1,
                  raw_response)

\* line 224: 1 if failure_count > 0 else 0
OverallFailureAboveOne(count) == IF count > 1 THEN 1 ELSE 0
OverallFailure(count) == IF count > 0 THEN 1 ELSE 0

\* the records handed to evaluate_qa_pair
JudgeInputs == [trace_id : {"t1"}, question : OrigContent]

\* the gateway outcomes of the judge run: a pass, a fail, an integer other
\* than 0/1, a non-numeric answer, a rate-limit error
JudgeOutcomes ==
    {Returned(<<"0">>), Returned(<<"1">>), Returned(<<"2">>),
     Returned(<<"n", "o">>), Raised(<<"4", "2", "9">>)}

JudgeInit ==
    /\ pc = "judge_start"
    /\ judge_in \in JudgeInputs
    /\ results = EmptyDict
    /\ failure_count = 0
    /\ mode_idx = 0
    /\ gateway_log = <<>>
    /\ OnlyJudge

\* lines 208-218: the results dict with the record's fields, the count at 0
JudgeBegin ==
    /\ pc = "judge_start"
    /\ results' = ("trace_id" :> judge_in.trace_id)
                  @@ ("question" :> judge_in.question)
    /\ failure_count' = 0
    /\ mode_idx' = 1
    /\ pc' = "judge_loop"
    /\ UNCHANGED <<judge_in, gateway_log, restOfJudge>>

\* lines 219-223: one turn of the loop over the six modes; the gateway
\* answers or fails in any way
JudgeMode ==
    /\ pc = "judge_loop"
    /\ mode_idx <= Len(FAILURE_MODE_NAMES)
    /\ \E outcome \in JudgeOutcomes :
          LET name == FAILURE_MODE_NAMES[mode_idx]
              got == EvaluateSingleFailureMode(outcome)
          IN  /\ gateway_log' = Append(gateway_log, outcome)
              /\ IF got.exc
                 THEN \* the exception leaves evaluate_qa_pair
                      /\ pc' = "judge_aborted"
                      /\ UNCHANGED <<results, failure_count, mode_idx>>
                 ELSE /\ results' = (name :> got.score)
                                    @@ (ResponseKey(name) :> got.raw)
                                    @@ results
                      /\ failure_count' = failure_count + got.score
                      /\ mode_idx' = mode_idx + 1
                      /\ pc' = "judge_loop"
    /\ UNCHANGED <<judge_in, restOfJudge>>

\* lines 224-226: the two derived fields, and the return
JudgeFinish ==
    /\ pc = "judge_loop"
    /\ mode_idx > Len(FAILURE_MODE_NAMES)
    /\ results' = ("overall_failure" :> OverallFailure(failure_count))
                  @@ ("failure_count" :> failure_count)
                  @@ results
    /\ pc' = "judge_done"
    /\ UNCHANGED <<judge_in, failure_count, mode_idx, gateway_log>>
    /\ UNCHANGED restOfJudge

JudgeNext == JudgeBegin \/ JudgeMode \/ JudgeFinish

SpecJudge == JudgeInit /\ [][JudgeNext]_vars

\* lines 220-223: one turn of the loop for the mode called name: the flag
\* and the raw response go under the mode's two keys, the score is added
\* to the count
TurnOfLoopCarryingFailure(d, count, name, got) ==
    [results |-> (name :> (IF count > 0 THEN 1 ELSE got.score))
                 @@ (ResponseKey(name) :> got.raw) @@ d,
     failure_count |-> count + (IF count > 0 THEN 1 ELSE got.score)]
TurnOfLoop(d, count, name, got) ==
    [results |-> (name :> got.score) @@ (ResponseKey(name) :> got.raw) @@ d,
     failure_count |-> count + got.score]

\* the gateway outcomes of the loop taken in any order: a pass, and for up
\* to MaxBadCalls of the calls an answer that is no number or a rate-limit
\* error
OrderOutcomes(log) ==
    IF Cardinality({i \in DOMAIN log : log[i] # Returned(<<"0">>)}) < MaxBadCalls
    THEN {Returned(<<"0">>), Returned(<<"n", "o">>), Raised(<<"4", "2", "9">>)}
    ELSE {Returned(<<"0">>)}

\* one record is judged; the order of the modes and the gateway vary
JudgeAnyOrderInit == JudgeInit /\ judge_in.question = "Q1"

\* lines 219-223 with the six modes taken in any order: a turn of the loop
\* for a mode that has not had its turn
JudgeModeAnyOrder ==
    /\ pc = "judge_loop"
    /\ mode_idx <= Len(FAILURE_MODE_NAMES)
    /\ \E k \in DOMAIN FAILURE_MODE_NAMES, outcome \in OrderOutcomes(gateway_log) :
          /\ FAILURE_MODE_NAMES[k] \notin DOMAIN results
          /\ \E got \in {EvaluateSingleFailureMode(outcome)} :
             \E turn \in {TurnOfLoop(results, failure_count,
                                     FAILURE_MODE_NAMES[k], got)} :
                /\ gateway_log' = Append(gateway_log, outcome)
                /\ call_modes' = Append(call_modes, FAILURE_MODE_NAMES[k])
                /\ IF got.exc
                   THEN /\ pc' = "judge_aborted"
                        /\ UNCHANGED <<results, failure_count, mode_idx>>
                   ELSE /\ results' = turn.results
                        /\ failure_count' = turn.failure_count
                        /\ mode_idx' = mode_idx + 1
                        /\ pc' = "judge_loop"
    /\ UNCHANGED <<judge_in, mergeVars, evalVars, validateVars, batchVars,
                   mainVars, analysisVars, moreVars>>

JudgeAnyOrderNext == JudgeBegin \/ JudgeModeAnyOrder \/ JudgeFinish

SpecJudgeAnyOrder == JudgeAnyOrderInit /\ [][JudgeAnyOrderNext]_vars

(***************************************************************************)
(* evaluate_single_failure_mode alone, over every short raw response       *)
(***************************************************************************)
\* the characters of a raw response: digits, signs, an underscore, a blank,
\* a letter
RawChars == {"0", "1", "2", "+", "-", "_", " ", "a"}

EvalInit ==
    /\ pc = "eval_start"
    /\ response \in {Returned(t) : t \in SeqUpTo(RawChars, MaxRawLen)}
                    \cup {Raised(<<"4", "2", "9">>)}
    /\ evaluated = NotReturned
    /\ OnlyEval

\* lines 173-204
Evaluate ==
    /\ pc = "eval_start"
    /\ evaluated' = EvaluateSingleFailureMode(response)
    /\ pc' = "eval_done"
    /\ UNCHANGED <<response, restOfEval>>

EvalNext == Evaluate

SpecEval == EvalInit /\ [][EvalNext]_vars

(***************************************************************************)
(* Properties of the judge                                                 *)
(***************************************************************************)
ModeNames == {FAILURE_MODE_NAMES[i] : i \in DOMAIN FAILURE_MODE_NAMES}

RECURSIVE SumFlags(_, _)
\* the sum of the flags that dict d holds for the first n modes
SumFlags(d, n) ==
    IF n = 0 THEN 0 ELSE SumFlags(d, n - 1) + d[FAILURE_MODE_NAMES[n]]

\* C3: every record that evaluate_qa_pair returns has failure_count equal to
\* the sum of its six mode flags, overall_failure = 1 exactly when
\* failure_count > 0, and overall_failure = 0 exactly when all six flags
\* are 0, whatever the gateway did on the six calls.
C3_OverallIffAnyFlag ==
    pc = "judge_done" =>
        /\ ModeNames \subseteq DOMAIN results
        /\ results["failure_count"] = SumFlags(results, 6)
        /\ results["overall_failure"] \in {0, 1}
        /\ results["overall_failure"] = 1 <=> results["failure_count"] > 0
        /\ results["overall_failure"] = 0
              <=> \A m \in ModeNames : results[m] = 0

\* C3 witness: a returned record with exactly one mode flagged, and so
\* overall_failure = 1 with failure_count = 1
C3_Witness ==
    /\ pc = "judge_done"
    /\ results["failure_count"] = 1
    /\ results["overall_failure"] = 1
    /\ results["missing_context"] = 1

\* a zero as Python's int() reads it: an optional sign, then zeros with
\* single underscores allowed between them
IsZeroLiteral(s) ==
    LET b == IF s # <<>> /\ s[1] \in {"+", "-"} THEN Tail(s) ELSE s
    IN  /\ b # <<>>
        /\ b[1] = "0" /\ b[Len(b)] = "0"
        /\ \A i \in DOMAIN b : b[i] \in {"0", "_"}
        /\ \A i \in DOMAIN b : b[i] = "_" => b[i + 1] = "0"

\* C4 as claimed: the score is 0 or 1, it is 0 only when the (trimmed)
\* response is the bare "0", a bare "1" gives 1, and a gateway failure
\* gives 1.
C4_ZeroOnlyForBareZero ==
    pc = "eval_done" =>
        /\ evaluated.score \in {0, 1}
        /\ evaluated.score = 0 => Strip(response.text) = <<"0">>
        /\ Strip(response.text) = <<"1">> => evaluated.score = 1
        /\ response.raised => evaluated.score = 1

\* C4 as amended: the score is 0 or 1 for every raw response; it is 0
\* exactly when the gateway answered and the trimmed response is a zero as
\* int() reads it ("0", "00", "+0", "-0", "0_0"); a bare "1" gives 1, and so
\* does every other response and a gateway failure.
C4_BinaryClosed ==
    pc = "eval_done" =>
        /\ ~evaluated.exc
        /\ evaluated.score \in {0, 1}
        /\ evaluated.score = 0
              <=> ~response.raised /\ IsZeroLiteral(Strip(response.text))
        /\ Strip(response.text) = <<"1">> => evaluated.score = 1

\* C4 witness: an integer other than 0/1 ("2", blank-padded) was scored 1
C4_Witness ==
    /\ pc = "eval_done"
    /\ response = Returned(<<" ", "2", " ">>)
    /\ evaluated.score = 1
    /\ evaluated.raw = <<"2">>

\* C5: no gateway failure leaves evaluate_qa_pair: the run never aborts, a
\* mode whose call raised is scored 1 with the error text as its raw
\* response, and the returned record holds a score and a raw response for
\* each of the six modes.
C5_JudgeNeverAborts ==
    /\ pc # "judge_aborted"
    /\ pc \in {"judge_loop", "judge_done"} =>
          \A k \in DOMAIN gateway_log :
              /\ FAILURE_MODE_NAMES[k] \in DOMAIN results
              /\ ResponseKey(FAILURE_MODE_NAMES[k]) \in DOMAIN results
              /\ gateway_log[k].raised =>
                    /\ results[FAILURE_MODE_NAMES[k]] = 1
                    /\ results[ResponseKey(FAILURE_MODE_NAMES[k])]
                          = ErrorText(gateway_log[k].text)
    /\ pc = "judge_done" => Len(gateway_log) = 6

\* C5 witness: the second call raised, the other five answered "0", and the
\* record was returned with all six scores
C5_Witness ==
    /\ pc = "judge_done"
    /\ Len(gateway_log) = 6
    /\ gateway_log[2].raised
    /\ \A k \in {1, 3, 4, 5, 6} : gateway_log[k] = Returned(<<"0">>)
    /\ results["safety_violations"] = 1
    /\ results["failure_count"] = 1
    /\ results["poor_quality_tips"] = 0

(***************************************************************************)
(* diy_repair/models.py: DIYRepairQA and validate_json_structure           *)
(***************************************************************************)
\* lines 17-23: the fields of DIYRepairQA in declaration order, and the
\* Field(...) bounds of each: min_length/max_length of a text, min_items/
\* max_items of a list
TextFields == <<"question", "answer", "equipment_problem", "safety_info", "tips">>
ListFields == <<"tools_required", "steps">>
FieldOrder ==
    <<"question", "answer", "equipment_problem", "tools_required", "steps",
      "safety_info", "tips">>
FieldMin ==
    [question |-> 10, answer |-> 20, equipment_problem |-> 5,
     tools_required |-> 1, steps |-> 2, safety_info |-> 10, tips |-> 10]
FieldMax ==
    [question |-> 500, answer |-> 2000, equipment_problem |-> 200,
     tools_required |-> 15, steps |-> 20, safety_info |-> 500, tips |-> 500]
IsTextField(f) == \E i \in DOMAIN TextFields : TextFields[i] = f

\* a text of lead blanks, core letters and trail blanks
Text(lead, core, trail) ==
    [i \in 1..(lead + core + trail) |->
        IF i <= lead \/ i > lead + core THEN " " ELSE "x"]

\* what the validation of one field gives: the stored value, or one error
Stored(v) == [ok |-> TRUE, value |-> v, type |-> ""]
FieldError(type) == [ok |-> FALSE, value |-> <<>>, type |-> type]

\* lines 17-19, 22-23 and 39-44: a text field. The Field(...) length bounds
\* are checked on the value as given; validate_text_fields then rejects a
\* blank value and stores the value trimmed
ValidateText(data, f) ==
    IF f \notin DOMAIN data THEN FieldError("missing")
    ELSE IF Len(data[f]) < FieldMin[f] THEN FieldError("string_too_short")
    ELSE IF Len(data[f]) > FieldMax[f] THEN FieldError("string_too_long")
    ELSE IF Strip(data[f]) = <<>> THEN FieldError("value_error")
    ELSE Stored(Strip(data[f]))

\* lines 20-21 and 25-37: a list field. The item-count bounds are checked,
\* then validate_tools / validate_steps rejects a list with a blank entry
\* and stores every entry trimmed
ValidateList(data, f) ==
    IF f \notin DOMAIN data THEN FieldError("missing")
    ELSE IF Len(data[f]) < FieldMin[f] THEN FieldError("too_short")
    ELSE IF Len(data[f]) > FieldMax[f] THEN FieldError("too_long")
    ELSE IF \E i \in DOMAIN data[f] : Strip(data[f][i]) = <<>>
         THEN FieldError("value_error")
    ELSE Stored([i \in DOMAIN data[f] |-> Strip(data[f][i])])

ValidateField(data, f) ==
    IF IsTextField(f) THEN ValidateText(data, f) ELSE ValidateList(data, f)

\* line 89: DIYRepairQA(**data). Every field is validated; the model object
\* holds the stored values, or a ValidationError lists one error per failed
\* field in declaration order
DIYRepairQA(data) ==
    LET failed == SelectSeq(FieldOrder, LAMBDA f : ~ValidateField(data, f).ok)
    IN  IF failed = <<>>
        THEN [ok |-> TRUE,
              obj |-> [f \in {FieldOrder[i] : i \in DOMAIN FieldOrder} |->
                          ValidateField(data, f).value],
              errs |-> <<>>]
        ELSE [ok |-> FALSE,
              obj |-> None,
              errs |-> [i \in DOMAIN failed |->
                          [loc |-> failed[i],
                           type |-> ValidateField(data, failed[i]).type]]]

\* an error string: its fixed wording, and the exception text put into it
ErrorString(msg, detail) == [msg |-> msg, detail |-> detail]

\* lines 70-93: validate_json_structure
ValidateJsonStructureChecksFields(text) ==
    IF ~text.object
    THEN [is_valid |-> FALSE, qa_pair |-> None,
          errors |-> <<ErrorString("Invalid JSON format", <<>>),
                       ErrorString("Validation error", DIYRepairQA(text.data).errs)>>]
    ELSE LET made == DIYRepairQA(text.data)
         IN  IF made.ok
             THEN [is_valid |-> TRUE, qa_pair |-> made.obj, errors |-> <<>>]
             ELSE [is_valid |-> FALSE, qa_pair |-> None,
                   errors |-> <<ErrorString("Validation error", made.errs)>>]
ValidateJsonStructure(text) ==
    IF ~text.parses
    THEN \* lines 84-86
         [is_valid |-> FALSE, qa_pair |-> None,
          errors |-> <<ErrorString("Invalid JSON format", <<>>)>>]
    ELSE IF ~text.object
    THEN \* lines 89, 91-93: ** of a value that is no mapping is a TypeError
         [is_valid |-> FALSE, qa_pair |-> None,
          errors |-> <<ErrorString("Validation error",
                                   <<[loc |-> "", type |-> "TypeError"]>>)>>]
    ELSE LET made == DIYRepairQA(text.data)
         IN  IF made.ok
             THEN \* line 90
                  [is_valid |-> TRUE, qa_pair |-> made.obj, errors |-> <<>>]
             ELSE \* lines 91-93: one string, holding str(e)
                  [is_valid |-> FALSE, qa_pair |-> None,
                   errors |-> <<ErrorString("Validation error", made.errs)>>]

\* raw texts: text that is no JSON, JSON that is no object, a JSON object
Malformed == [parses |-> FALSE, object |-> FALSE, data |-> EmptyDict]
NonObject == [parses |-> TRUE, object |-> FALSE, data |-> EmptyDict]
Object(data) == [parses |-> TRUE, object |-> TRUE, data |-> data]

\* the values tried for a text field with bounds lo..hi: at the minimum, at
\* the minimum only thanks to blanks around it, below the minimum, blank
TextAtMin(f) == Text(0, FieldMin[f], 0)
TextPadded(f) == Text(Pad, FieldMin[f] - 2 * Pad, Pad)
TextShort(f) == Text(0, FieldMin[f] - 1, 0)
TextBlank(f) == Text(FieldMin[f], 0, 0)
TextLong(f) == Text(0, FieldMax[f] + 1, 0)

Item == Text(0, 4, 0)
PaddedItem == Text(Pad, 4, Pad)
BlankItem == Text(2, 0, 0)

\* the JSON objects tried: any choice of the values below, the question
\* possibly left out
ObjectInputs ==
    LET withQuestion ==
            [question : {TextAtMin("question"), TextPadded("question"),
                         TextShort("question"), TextBlank("question"),
                         TextLong("question")},
             answer : {TextAtMin("answer"), TextPadded("answer"),
                       TextShort("answer")},
             equipment_problem : {TextAtMin("equipment_problem"),
                                  TextPadded("equipment_problem")},
             tools_required : {<<Item>>, <<>>, <<Item, BlankItem>>,
                               [i \in 1..(FieldMax["tools_required"] + 1) |-> Item]},
             steps : {<<Item, Item>>, <<Item>>, <<PaddedItem, Item>>,
                      <<Item, BlankItem>>},
             safety_info : {TextAtMin("safety_info"), TextShort("safety_info")},
             tips : {TextAtMin("tips"), TextBlank("tips")}]
        noQuestion ==
            {[f \in DOMAIN d \ {"question"} |-> d[f]] :
                d \in {w \in withQuestion :
                          w.question = TextAtMin("question")}}
    IN  withQuestion \cup noQuestion

ValidateInit ==
    /\ pc = "validate_start"
    /\ json_str \in {Malformed, NonObject} \cup {Object(d) : d \in ObjectInputs}
    /\ validated = NotReturned
    /\ OnlyValidate

\* lines 70-93
Validate ==
    /\ pc = "validate_start"
    /\ validated' = ValidateJsonStructure(json_str)
    /\ pc' = "validate_done"
    /\ UNCHANGED <<json_str, restOfValidate>>

ValidateNext == Validate

SpecValidate == ValidateInit /\ [][ValidateNext]_vars

(***************************************************************************)
(* Properties of the structural validator                                  *)
(***************************************************************************)
FieldNames == {FieldOrder[i] : i \in DOMAIN FieldOrder}
TextFieldNames == {TextFields[i] : i \in DOMAIN TextFields}
ListFieldNames == {ListFields[i] : i \in DOMAIN ListFields}

\* the field constraints that a JSON object violates: a text outside its
\* length bound or blank, a list outside its arity or with a blank entry
ViolatedConstraints(data) ==
    {<<f, "length">> : f \in {g \in TextFieldNames \cap DOMAIN data :
        Len(data[g]) < FieldMin[g] \/ Len(data[g]) > FieldMax[g]}}
    \cup {<<f, "blank">> : f \in {g \in TextFieldNames \cap DOMAIN data :
        data[g] # <<>> /\ Strip(data[g]) = <<>>}}
    \cup {<<f, "arity">> : f \in {g \in ListFieldNames \cap DOMAIN data :
        Len(data[g]) < FieldMin[g] \/ Len(data[g]) > FieldMax[g]}}
    \cup {<<f, "blank entry">> : f \in {g \in ListFieldNames \cap DOMAIN data :
        \E i \in DOMAIN data[g] : Strip(data[g][i]) = <<>>}}

\* C6 as claimed: for a JSON object that violates two or more independent
\* field constraints, validate_json_structure returns is_valid = false and
\* an error list of length at least 2.
C6_ExhaustiveErrors ==
    (pc = "validate_done" /\ json_str.parses /\ json_str.object
        /\ Cardinality(ViolatedConstraints(json_str.data)) >= 2)
    => (~validated.is_valid /\ Len(validated.errors) >= 2)

\* C7 as claimed: every record that validate_json_structure accepts holds,
\* as stored, texts that are trimmed, non-empty and within the field's
\* length bound, and lists within their arity whose entries are trimmed and
\* not blank.
C7_AcceptedWithinBounds ==
    (pc = "validate_done" /\ validated.is_valid) =>
        /\ \A f \in TextFieldNames :
              LET v == validated.qa_pair[f]
              IN  /\ v # <<>> /\ Strip(v) = v
                  /\ Len(v) >= FieldMin[f] /\ Len(v) <= FieldMax[f]
        /\ \A f \in ListFieldNames :
              LET v == validated.qa_pair[f]
              IN  /\ Len(v) >= FieldMin[f] /\ Len(v) <= FieldMax[f]
                  /\ \A i \in DOMAIN v : v[i] # <<>> /\ Strip(v[i]) = v[i]

(***************************************************************************)
(* diy_repair/validation_phase.py: DIYRepairValidator                      *)
(***************************************************************************)
\* a list s with list t appended: list.extend
Extend(s, t) == s \o t

\* what validate_structure returns: the flag and the error list; aliased
\* says that the list is the result's own validation_errors list (line 25
\* returns that very object)
Verdict(ok, errors, aliased) == [ok |-> ok, errors |-> errors, aliased |-> aliased]

\* lines 33-50: the nine checks, each adding its message when it fails
StructureChecks(qa_pair) ==
    <<[failed |-> Strip(qa_pair.question) = <<>>,
       msg |-> "Question is empty or whitespace only"],
      [failed |-> Strip(qa_pair.answer) = <<>>,
       msg |-> "Answer is empty or whitespace only"],
      [failed |-> Strip(qa_pair.equipment_problem) = <<>>,
       msg |-> "Equipment problem is empty or whitespace only"],
      [failed |-> Strip(qa_pair.safety_info) = <<>>,
       msg |-> "Safety info is empty or whitespace only"],
      [failed |-> Strip(qa_pair.tips) = <<>>,
       msg |-> "Tips is empty or whitespace only"],
      [failed |-> qa_pair.tools_required = <<>>,
       msg |-> "Tools required list is empty"],
      [failed |-> qa_pair.steps = <<>>,
       msg |-> "Steps list is empty"],
      [failed |-> \E i \in DOMAIN qa_pair.tools_required :
                      Strip(qa_pair.tools_required[i]) = <<>>,
       msg |-> "Tools required contains empty items"],
      [failed |-> \E i \in DOMAIN qa_pair.steps :
                      Strip(qa_pair.steps[i]) = <<>>,
       msg |-> "Steps contains empty items"]>>

\* lines 30-52: the messages of the checks that fail, in order
StructuralErrors(qa_pair) ==
    LET failing == SelectSeq(StructureChecks(qa_pair), LAMBDA c : c.failed)
    IN  [i \in DOMAIN failing |-> ErrorString(failing[i].msg, <<>>)]

\* lines 22-52: validate_structure
ValidateStructureNoFieldChecks(result) ==
    IF ~result.is_valid THEN Verdict(FALSE, result.validation_errors, TRUE)
    ELSE IF result.qa_pair = None
    THEN Verdict(FALSE, <<ErrorString("No valid Q&A pair generated", <<>>)>>, FALSE)
    ELSE Verdict(TRUE, <<>>, FALSE)
ValidateStructure(result) ==
    IF ~result.is_valid
    THEN \* lines 24-25
         Verdict(FALSE, result.validation_errors, TRUE)
    ELSE IF result.qa_pair = None
    THEN \* lines 27-28
         Verdict(FALSE, <<ErrorString("No valid Q&A pair generated", <<>>)>>, FALSE)
    ELSE \* lines 30-52
         Verdict(StructuralErrors(result.qa_pair) = <<>>,
                 StructuralErrors(result.qa_pair), FALSE)

\* lines 65-66: the result marked invalid and its error list extended by
\* structural_errors; when structural_errors is the result's own list, the
\* list is extended by itself
MarkInvalidKeepsFlag(result, verdict) ==
    [result EXCEPT !.validation_errors = Extend(@, IF verdict.aliased THEN @
                                                   ELSE verdict.errors)]
MarkInvalid(result, verdict) ==
    [result EXCEPT !.is_valid = FALSE,
                   !.validation_errors = Extend(@, IF verdict.aliased THEN @
                                                   ELSE verdict.errors)]

\* line 67: structural_errors as all_errors.extend reads it, after line 66
ErrorsAfterMark(result, verdict) ==
    IF verdict.aliased THEN MarkInvalid(result, verdict).validation_errors
    ELSE verdict.errors

RECURSIVE AllErrors(_)
\* lines 57-67: all_errors after the loop over the results
AllErrors(rs) ==
    IF rs = <<>> THEN <<>>
    ELSE LET r == rs[Len(rs)]
             v == ValidateStructure(r)
             before == AllErrors(SubSeq(rs, 1, Len(rs) - 1))
         IN  IF v.ok THEN before ELSE Extend(before, ErrorsAfterMark(r, v))

\* line 69: Counter(all_errors)[e]
CountOf(e, s) == Cardinality({i \in DOMAIN s : s[i] = e})
FirstSeen(e, s) == SetMin({i \in DOMAIN s : s[i] = e})

\* line 70: error_counter.most_common(n): the distinct errors by falling
\* count, errors of equal count in first-seen order, the first n of them
MostCommon(s, n) ==
    LET distinct == {s[i] : i \in DOMAIN s}
        Before(a, b) ==
            \/ CountOf(a, s) > CountOf(b, s)
            \/ CountOf(a, s) = CountOf(b, s) /\ FirstSeen(a, s) < FirstSeen(b, s)
        rank(e) == 1 + Cardinality({a \in distinct : Before(a, e)})
        k == IF Cardinality(distinct) < n THEN Cardinality(distinct) ELSE n
    IN  [i \in 1..k |-> CHOOSE e \in distinct : rank(e) = i]

\* line 76: len(valid_results) / len(results) * 100 if results else 0, as
\* the fraction num/den
Rate(valid, total) ==
    IF total = 0 THEN [num |-> 0, den |-> 1]
    ELSE [num |-> valid * 100, den |-> total]

\* lines 72-78: the ValidationSummary
Summary(rs, valid) ==
    [total_generated |-> Len(rs),
     valid_samples |-> Len(valid),
     invalid_samples |-> Len(rs) - Len(valid),
     validation_rate |-> Rate(Len(valid), Len(rs)),
     common_errors |-> MostCommon(AllErrors(rs), 5)]

\* a GenerationResult
GenerationResult(trace_id, qa_pair, is_valid, validation_errors) ==
    [trace_id |-> trace_id, qa_pair |-> qa_pair, is_valid |-> is_valid,
     validation_errors |-> validation_errors]

\* generation_phase.py lines 114-123: the result made from a raw response
ResultOfText(trace_id, text) ==
    LET v == ValidateJsonStructure(text)
    IN  GenerationResult(trace_id, v.qa_pair, v.is_valid, v.errors)

\* generation_phase.py lines 125-133: the result of a gateway call that
\* raised with message msg
ResultOfFailure(trace_id, msg) ==
    GenerationResult(trace_id, None, FALSE,
                     <<ErrorString("Generation error", <<[exception |-> msg]>>)>>)

\* a JSON object with every field at its minimum, and variations of it
GoodData ==
    [question |-> TextAtMin("question"), answer |-> TextAtMin("answer"),
     equipment_problem |-> TextAtMin("equipment_problem"),
     tools_required |-> <<Item>>, steps |-> <<Item, Item>>,
     safety_info |-> TextAtMin("safety_info"), tips |-> TextAtMin("tips")]
GoodQA == DIYRepairQA(GoodData).obj

\* the results handed to validate_batch under trace id t: results of
\* generation (a good answer, text that is no JSON, a short question, a
\* failed call); a result loaded with is_valid set and no record; and good
\* records one of whose attributes was assigned a blank value or an empty
\* list afterwards (pydantic does not validate an assignment)
BatchResults(t) ==
    {ResultOfText(t, Object(GoodData)),
     ResultOfText(t, Malformed),
     ResultOfText(t, Object([GoodData EXCEPT !.question = TextShort("question")])),
     ResultOfFailure(t, <<"4", "2", "9">>),
     GenerationResult(t, None, TRUE, <<>>),
     GenerationResult(t, [GoodQA EXCEPT !.tips = BlankItem], TRUE, <<>>),
     GenerationResult(t, [GoodQA EXCEPT !.tools_required = <<>>,
                                        !.steps = <<Item, BlankItem>>], TRUE, <<>>)}

\* the trace id of the i-th result of a batch
GenId(i) == "g" \o ToString(i)

BatchInit ==
    /\ pc = "batch_start"
    /\ \E n \in 0..MaxBatch :
          batch \in {b \in [1..n -> UNION {BatchResults(GenId(i)) : i \in 1..n}] :
                        \A i \in 1..n : b[i].trace_id = GenId(i)}
    /\ gen_results = batch
    /\ valid_results = <<>>
    /\ summary = NotReturned
    /\ OnlyBatch

\* lines 54-80: validate_batch
ValidateBatch ==
    /\ pc = "batch_start"
    /\ gen_results' =
          [i \in DOMAIN gen_results |->
              IF ValidateStructure(gen_results[i]).ok THEN gen_results[i]
              ELSE MarkInvalid(gen_results[i], ValidateStructure(gen_results[i]))]
    /\ valid_results' =
          SelectSeq(gen_results, LAMBDA r : ValidateStructure(r).ok)
    /\ summary' = Summary(gen_results, valid_results')
    /\ pc' = "batch_done"
    /\ UNCHANGED <<batch, restOfBatch>>

BatchNext == ValidateBatch

SpecBatch == BatchInit /\ [][BatchNext]_vars

(***************************************************************************)
(* Properties of the batch validator                                       *)
(***************************************************************************)
\* a result is structurally valid: flagged valid, with a record, no text of
\* the record blank, no list empty, no list entry blank
StructurallyValid(r) ==
    /\ r.is_valid
    /\ r.qa_pair # None
    /\ \A f \in TextFieldNames : \E i \in DOMAIN r.qa_pair[f] : r.qa_pair[f][i] # " "
    /\ \A f \in ListFieldNames :
          /\ r.qa_pair[f] # <<>>
          /\ \A k \in DOMAIN r.qa_pair[f] :
                \E i \in DOMAIN r.qa_pair[f][k] : r.qa_pair[f][k][i] # " "

\* C8: validate_batch returns exactly the structurally valid results of its
\* input, in input order, and a summary with total_generated the number of
\* inputs, valid_samples the number returned, invalid_samples their
\* difference and validation_rate = valid_samples / total_generated * 100,
\* or 0 for an empty batch.
C8_BatchFiltersAndCounts ==
    pc = "batch_done" =>
        /\ valid_results = SelectSeq(batch, StructurallyValid)
        /\ summary.total_generated = Len(batch)
        /\ summary.valid_samples = Len(valid_results)
        /\ summary.invalid_samples
              = summary.total_generated - summary.valid_samples
        /\ summary.validation_rate.den > 0
        /\ IF Len(batch) = 0 THEN summary.validation_rate.num = 0
           ELSE summary.validation_rate.num * summary.total_generated
                   = summary.valid_samples * 100 * summary.validation_rate.den

\* C8 witness: a batch of three, the valid result second, between a result
\* that generation marked invalid and one with a blank attribute: one
\* result returned, a rate of 100/3
C8_Witness ==
    /\ pc = "batch_done"
    /\ Len(batch) = 3
    /\ ~batch[1].is_valid
    /\ batch[3].is_valid /\ batch[3].qa_pair # None /\ ~StructurallyValid(batch[3])
    /\ valid_results = <<batch[2]>>
    /\ summary.invalid_samples = 2
    /\ summary.validation_rate = [num |-> 100, den |-> 3]

\* C17: validate_batch only downgrades validity: a result valid after the
\* call was valid before it; a result that came in invalid is not among the
\* results returned; and a result that came in valid without a record is
\* invalid after the call.
C17_ValidatorOnlyDowngrades ==
    pc = "batch_done" =>
        \A i \in DOMAIN batch :
            /\ gen_results[i].is_valid => batch[i].is_valid
            /\ ~batch[i].is_valid =>
                  \A k \in DOMAIN valid_results :
                     valid_results[k].trace_id # batch[i].trace_id
            /\ (batch[i].is_valid /\ batch[i].qa_pair = None) =>
                  ~gen_results[i].is_valid

\* C17 witness: a batch with a result that came in invalid, a result that
\* came in valid without a record and is invalid now, and a result returned
C17_Witness ==
    /\ pc = "batch_done"
    /\ Len(batch) = 3
    /\ ~batch[1].is_valid
    /\ batch[2].is_valid /\ batch[2].qa_pair = None /\ ~gen_results[2].is_valid
    /\ batch[3].is_valid /\ Len(valid_results) = 1
    /\ valid_results[1].trace_id = batch[3].trace_id

(***************************************************************************)
(* diy_repair/failure_labeling.py: the evaluation prompts of the judge     *)
(***************************************************************************)
\* failure_labeling.py lines 36-150: the fields that the evaluation_prompt
\* of each mode names, in the order of the template
PromptFieldsWithAnswer ==
    [incomplete_answer |-> <<"question", "answer", "steps">>,
     safety_violations |-> <<"question", "safety_info", "answer">>,
     unrealistic_tools |->
         <<"question", "tools_required", "equipment_problem", "answer">>,
     overcomplicated_solution |->
         <<"question", "equipment_problem", "steps", "tools_required">>,
     missing_context |-> <<"question", "answer", "equipment_problem", "tips">>,
     poor_quality_tips |-> <<"question", "answer", "tips">>]
PromptFields ==
    [incomplete_answer |-> <<"question", "answer", "steps">>,
     safety_violations |-> <<"question", "safety_info", "answer">>,
     unrealistic_tools |-> <<"question", "tools_required", "equipment_problem">>,
     overcomplicated_solution |->
         <<"question", "equipment_problem", "steps", "tools_required">>,
     missing_context |-> <<"question", "answer", "equipment_problem", "tips">>,
     poor_quality_tips |-> <<"question", "answer", "tips">>]

RECURSIVE ItemsRepr(_)
\* the items of a list as str.format writes them: each in quotes, a comma
\* and a blank between two
ItemsRepr(list) ==
    IF list = <<>> THEN <<>>
    ELSE <<"'">> \o Head(list) \o <<"'">>
         \o (IF Tail(list) = <<>> THEN <<>>
             ELSE <<",", " ">> \o ItemsRepr(Tail(list)))

\* str.format of a list of strings that hold no quote and no backslash
ListRepr(list) == <<"[">> \o ItemsRepr(list) \o <<"]">>

\* lines 176-184: what str.format puts in the place of {f}: a string as it
\* is, a list as its repr
FormatField(qa_pair, f) ==
    IF IsTextField(f) THEN qa_pair[f] ELSE ListRepr(qa_pair[f])

\* lines 176-184: failure_mode.evaluation_prompt.format(...): the template
\* of the mode with each of its placeholders filled from the record
EvaluationPrompt(mode, qa_pair) ==
    [template |-> mode,
     filled |-> [k \in DOMAIN PromptFields[mode] |->
                    [field |-> PromptFields[mode][k],
                     text |-> FormatField(qa_pair, PromptFields[mode][k])]]]

\* another value for field f of a record
OtherValue(f) ==
    IF IsTextField(f) THEN Text(0, FieldMin[f] + 1, 0)
    ELSE <<Item, Item, Item>>

\* the records a prompt is made for: every field either as in GoodQA or
\* with its other value
PromptRecords ==
    {[f \in DOMAIN GoodQA |-> IF f \in changed THEN OtherValue(f) ELSE GoodQA[f]] :
        changed \in SUBSET DOMAIN GoodQA}

OnlyPrompt ==
    /\ MergeIdle /\ JudgeIdle /\ EvalIdle /\ ValidateIdle /\ BatchIdle
    /\ MainIdle /\ AnalysisIdle /\ OrderIdle /\ HumanIdle
restOfPrompt ==
    <<mergeVars, judgeVars, evalVars, validateVars, batchVars, mainVars,
      analysisVars, orderVars, humanVars>>

PromptInit ==
    /\ pc = "prompt_start"
    /\ prompt_in \in PromptRecords
    /\ prompt_mode \in {FAILURE_MODE_NAMES[k] : k \in DOMAIN FAILURE_MODE_NAMES}
    /\ prompt = NotReturned
    /\ OnlyPrompt

\* lines 176-184: the prompt of the mode is made for the record
FormatPrompt ==
    /\ pc = "prompt_start"
    /\ prompt' = EvaluationPrompt(prompt_mode, prompt_in)
    /\ pc' = "prompt_done"
    /\ UNCHANGED <<prompt_in, prompt_mode, restOfPrompt>>

PromptNext == FormatPrompt

SpecPrompt == PromptInit /\ [][PromptNext]_vars

(***************************************************************************)
(* Properties of the evaluation prompts                                    *)
(***************************************************************************)
\* records a and b hold the same values in the fields named
AgreeOn(a, b, fields) == \A f \in fields : a[f] = b[f]

\* C21 as claimed: the unrealistic_tools prompt sees only tools_required
\* and equipment_problem: a record that agrees with the one given on these
\* two fields gets the identical prompt.
C21_ToolsPromptSeesTwoFields ==
    (pc = "prompt_done" /\ prompt_mode = "unrealistic_tools") =>
        \A other \in PromptRecords :
            AgreeOn(other, prompt_in, {"tools_required", "equipment_problem"})
               => EvaluationPrompt(prompt_mode, other) = prompt

\* C21 as amended: the unrealistic_tools prompt sees question,
\* tools_required and equipment_problem and no other field: it is filled
\* from these three, and a record that agrees with the one given on them and
\* differs in any of answer, steps, safety_info and tips gets the identical
\* prompt.
C21_ToolsPromptSeesThreeFields ==
    (pc = "prompt_done" /\ prompt_mode = "unrealistic_tools") =>
        /\ {prompt.filled[k].field : k \in DOMAIN prompt.filled}
              = {"question", "tools_required", "equipment_problem"}
        /\ \A other \in PromptRecords :
              AgreeOn(other, prompt_in,
                      {"question", "tools_required", "equipment_problem"})
                 => EvaluationPrompt(prompt_mode, other) = prompt

\* C21 witness: the unrealistic_tools prompt was made for a record, and a
\* record that differs from it in answer, steps, safety_info and tips alone
\* gets the same prompt
C21_Witness ==
    /\ pc = "prompt_done" /\ prompt_mode = "unrealistic_tools"
    /\ \E other \in PromptRecords :
          /\ AgreeOn(other, prompt_in,
                     {"question", "tools_required", "equipment_problem"})
          /\ \A f \in {"answer", "steps", "safety_info", "tips"} :
                other[f] # prompt_in[f]
          /\ EvaluationPrompt(prompt_mode, other) = prompt

(***************************************************************************)
(* diy_repair/correction_phase.py: the correction prompt                   *)
(***************************************************************************)
\* failure_labeling.py lines 39, 57, 75, 93, 112 and 131: the
\* success_criteria of each mode
SUCCESS_CRITERIA ==
    [incomplete_answer |->
         "Answer provides comprehensive, step-by-step instructions that would allow someone to complete the repair successfully",
     safety_violations |->
         "Includes appropriate safety warnings, precautions, and mentions when to call professionals",
     unrealistic_tools |->
         "Tools are commonly available to homeowners or easily obtainable from hardware stores",
     overcomplicated_solution |->
         "Solution is appropriately scaled to the problem complexity and homeowner skill level",
     missing_context |->
         "Provides context about when to use this solution, prerequisites, and situational considerations",
     poor_quality_tips |->
         "Tips provide specific, actionable advice that enhances the repair process"]

\* correction_phase.py lines 14-21
FIX_INSTRUCTIONS ==
    [incomplete_answer |->
         "Expand the answer and steps so they are comprehensive, step-by-step, and sufficient for someone to complete the repair successfully. Add any missing critical steps.",
     safety_violations |->
         "Add clear safety warnings, precautions (e.g. turn off power/water), and explicitly state when to call a professional. Ensure nothing dangerous is implied.",
     unrealistic_tools |->
         "Use only tools commonly available to homeowners or easily found at hardware stores. Replace any specialized or expensive tools with realistic alternatives.",
     overcomplicated_solution |->
         "Simplify the solution: fewer steps where possible, appropriate to a DIY skill level. Remove unnecessary complexity while keeping it effective.",
     missing_context |->
         "Add when to use this solution, any prerequisites (e.g. parts, time), and situational notes (e.g. when it might not apply, when to call a pro).",
     poor_quality_tips |->
         "Rewrite tips to be specific and actionable (e.g. exact techniques, order of operations, what to avoid). Do not repeat the main answer; add real extra value."]

\* correction_phase.py line 34: the modes the row marks 1, in the order of
\* the taxonomy; line 35-36: "quality" if there is none
FailedModesNoFallback(failed_qa_pair) ==
    SelectSeq(FAILURE_MODE_NAMES,
              LAMBDA name : name \in DOMAIN failed_qa_pair /\ failed_qa_pair[name] = 1)
FailedModes(failed_qa_pair) ==
    LET failed_modes ==
            SelectSeq(FAILURE_MODE_NAMES,
                      LAMBDA name : /\ name \in DOMAIN failed_qa_pair
                                    /\ failed_qa_pair[name] = 1)
    IN  IF failed_modes = <<>> THEN <<"quality">> ELSE failed_modes

\* correction_phase.py lines 38-46: the line of fix_section for a name: the
\* name, the text after "Judge expects:" and the text after "To fix:"
FixLine(name) ==
    IF name = "quality"
    THEN \* lines 39-41
         [mode |-> "quality", expects |-> "",
          fix |-> "Improve overall quality so it would pass all 6 quality checks."]
    ELSE \* lines 42-45: every name of the taxonomy has a mode and a fix
         \* instruction, so neither default is taken
         [mode |-> name, expects |-> SUCCESS_CRITERIA[name],
          fix |-> FIX_INSTRUCTIONS[name]]

\* correction_phase.py lines 31-73: _create_correction_prompt: the lines of
\* FAILURES TO FIX and the seven fields of ORIGINAL Q&A PAIR
CreateCorrectionPrompt(failed_qa_pair) ==
    [fix_section |-> [k \in DOMAIN FailedModes(failed_qa_pair) |->
                         FixLine(FailedModes(failed_qa_pair)[k])],
     original |-> [k \in DOMAIN FieldOrder |->
                      [field |-> FieldOrder[k],
                       text |-> FormatField(failed_qa_pair, FieldOrder[k])]]]

\* a row of failure_labeled_data.json as the corrector gets it: a record,
\* its trace id and the six flags; failed is the set of the modes flagged
FailedRow(qa_pair, failed) ==
    [f \in DOMAIN qa_pair \cup {"trace_id", "overall_failure", "failure_count"}
            \cup {FAILURE_MODE_NAMES[k] : k \in DOMAIN FAILURE_MODE_NAMES} |->
        IF f \in DOMAIN qa_pair THEN qa_pair[f]
        ELSE IF f = "trace_id" THEN "u1"
        ELSE IF f = "overall_failure" THEN OverallFailure(Cardinality(failed))
        ELSE IF f = "failure_count" THEN Cardinality(failed)
        ELSE IF f \in failed THEN 1 ELSE 0]

CorrectionPromptInit ==
    /\ pc = "correction_prompt_start"
    /\ prompt_in \in {FailedRow(qa_pair, failed) :
                          qa_pair \in {GoodQA, [GoodQA EXCEPT !.answer = OtherValue("answer")]},
                          failed \in SUBSET {FAILURE_MODE_NAMES[k] :
                                                k \in DOMAIN FAILURE_MODE_NAMES}}
    /\ prompt_mode = ""
    /\ prompt = NotReturned
    /\ OnlyPrompt

\* correction_phase.py line 77: the prompt is made for the row
BuildCorrectionPrompt ==
    /\ pc = "correction_prompt_start"
    /\ prompt' = CreateCorrectionPrompt(prompt_in)
    /\ pc' = "correction_prompt_done"
    /\ UNCHANGED <<prompt_in, prompt_mode, restOfPrompt>>

CorrectionPromptNext == BuildCorrectionPrompt

SpecCorrectionPrompt == CorrectionPromptInit /\ [][CorrectionPromptNext]_vars

(***************************************************************************)
(* Properties of the correction prompt                                     *)
(***************************************************************************)
\* the places of the taxonomy whose mode the row marks 1
FlaggedPlaces == {k \in DOMAIN FAILURE_MODE_NAMES : prompt_in[FAILURE_MODE_NAMES[k]] = 1}

\* the lines of the prompt that are about a mode
LinesFor(name) ==
    {k \in DOMAIN prompt.fix_section : prompt.fix_section[k].mode = name}

\* C26: the correction prompt holds one repair instruction for every mode
\* the row flags 1 and none for a mode it flags 0; the instruction pairs the
\* success criteria of that mode with the fix directive of that mode; the
\* instructions come in the order of the taxonomy; if no mode is flagged
\* the prompt holds the generic "quality" instruction and nothing else.
C26_OneInstructionPerFailedMode ==
    pc = "correction_prompt_done" =>
        /\ \A k \in DOMAIN FAILURE_MODE_NAMES :
              Cardinality(LinesFor(FAILURE_MODE_NAMES[k]))
                 = IF k \in FlaggedPlaces THEN 1 ELSE 0
        /\ \A k \in DOMAIN FAILURE_MODE_NAMES :
              \A l \in LinesFor(FAILURE_MODE_NAMES[k]) :
                 /\ prompt.fix_section[l].expects = SUCCESS_CRITERIA[FAILURE_MODE_NAMES[k]]
                 /\ prompt.fix_section[l].fix = FIX_INSTRUCTIONS[FAILURE_MODE_NAMES[k]]
        /\ \A j, k \in DOMAIN FAILURE_MODE_NAMES :
              \A lj \in LinesFor(FAILURE_MODE_NAMES[j]),
                 lk \in LinesFor(FAILURE_MODE_NAMES[k]) : j < k => lj < lk
        /\ IF FlaggedPlaces = {}
           THEN /\ Len(prompt.fix_section) = 1
                /\ prompt.fix_section[1].mode = "quality"
           ELSE Len(prompt.fix_section) = Cardinality(FlaggedPlaces)

\* C26 witness: a prompt for a row that fails the second and the fifth mode
\* holds their two instructions in that order
C26_Witness ==
    /\ pc = "correction_prompt_done"
    /\ FlaggedPlaces = {2, 5}
    /\ Len(prompt.fix_section) = 2
    /\ prompt.fix_section[1].mode = "safety_violations"
    /\ prompt.fix_section[2].mode = "missing_context"

\* C26 witness of the other case: a prompt for a row that fails no mode
\* holds the generic instruction
C26_WitnessGeneric ==
    /\ pc = "correction_prompt_done"
    /\ FlaggedPlaces = {}
    /\ prompt.fix_section[1].mode = "quality"

(***************************************************************************)
(* diy_repair/failure_analysis.py: FailureAnalyzer                         *)
(***************************************************************************)
\* config.py line 9: TARGET_FAILURE_RATE = 0.0632, as the fraction num/den.
\* A mean of 0/1 values over fewer than 2^52 rows and the float 0.0632
\* compare as the two fractions do
TARGET_FAILURE_RATE == [num |-> 632, den |-> 10000]

\* x < y and x > y for fractions x and y of positive denominators
Less(x, y) == x.num * y.den < y.num * x.den
Greater(x, y) == Less(y, x)

RECURSIVE SumValues(_, _, _)
\* the sum of a column whose values are vals: each value times the number of
\* rows that hold it
SumValues(frame, column, vals) ==
    IF vals = {} THEN 0
    ELSE LET v == CHOOSE x \in vals : TRUE
         IN  v * Cardinality({i \in DOMAIN frame : frame[i][column] = v})
             + SumValues(frame, column, vals \ {v})

\* df[column].sum()
ColumnSum(frame, column) ==
    SumValues(frame, column, {frame[i][column] : i \in DOMAIN frame})

\* df[column].mean(), as the fraction sum/len
Mean(frame, column) == [num |-> ColumnSum(frame, column), den |-> Len(frame)]

\* failure_analysis.py line 45: sorted(self.failure_modes, key=rate,
\* reverse=True): by falling rate; the sort is stable, so modes of equal
\* rate keep the order of FAILURE_MODE_NAMES
SortedModesAscending(rates) ==
    LET modes == DOMAIN FAILURE_MODE_NAMES
        rate(k) == rates[FAILURE_MODE_NAMES[k]]
        rank(k) == 1 + Cardinality({j \in modes :
                          \/ Less(rate(j), rate(k))
                          \/ ~Less(rate(k), rate(j)) /\ ~Less(rate(j), rate(k)) /\ j < k})
    IN  [p \in modes |-> FAILURE_MODE_NAMES[CHOOSE k \in modes : rank(k) = p]]
SortedModes(rates) ==
    LET modes == DOMAIN FAILURE_MODE_NAMES
        rate(k) == rates[FAILURE_MODE_NAMES[k]]
        rank(k) == 1 + Cardinality({j \in modes :
                          \/ Greater(rate(j), rate(k))
                          \/ ~Less(rate(k), rate(j)) /\ ~Less(rate(j), rate(k)) /\ j < k})
    IN  [p \in modes |-> FAILURE_MODE_NAMES[CHOOSE k \in modes : rank(k) = p]]

\* failure_analysis.py lines 28-48: the summary dict, given the overall
\* failure rate and the rate of every mode
SummaryDictAtMost(frame, overall_failure, rates) ==
    [total_samples |-> Len(frame),
     overall_failure_rate |-> overall_failure,
     overall_success_rate |-> [num |-> overall_failure.den - overall_failure.num,
                               den |-> overall_failure.den],
     target_failure_rate |-> TARGET_FAILURE_RATE,
     target_met |-> ~Greater(overall_failure, TARGET_FAILURE_RATE),
     failure_mode_rates |-> rates,
     failure_mode_counts |-> [m \in DOMAIN rates |-> rates[m].num],
     most_common_failures |-> SubSeq(SortedModes(rates), 1, 3),
     least_common_failures |->
         SubSeq(SortedModes(rates), Len(FAILURE_MODE_NAMES) - 2,
                Len(FAILURE_MODE_NAMES))]
SummaryDict(frame, overall_failure, rates) ==
    [total_samples |-> Len(frame),
     overall_failure_rate |-> overall_failure,
     overall_success_rate |-> [num |-> overall_failure.den - overall_failure.num,
                               den |-> overall_failure.den],
     target_failure_rate |-> TARGET_FAILURE_RATE,
     target_met |-> Less(overall_failure, TARGET_FAILURE_RATE),
     failure_mode_rates |-> rates,
     failure_mode_counts |-> [m \in DOMAIN rates |-> rates[m].num],
     most_common_failures |-> SubSeq(SortedModes(rates), 1, 3),
     least_common_failures |->
         SubSeq(SortedModes(rates), Len(FAILURE_MODE_NAMES) - 2,
                Len(FAILURE_MODE_NAMES))]

\* failure_analysis.py lines 26-48: generate_failure_summary
GenerateFailureSummary(frame) ==
    TheOne({SummaryDict(frame, overall_failure, rates) :
               overall_failure \in {Mean(frame, "overall_failure")},
               rates \in {[m \in {FAILURE_MODE_NAMES[k] :
                                    k \in DOMAIN FAILURE_MODE_NAMES} |->
                             Mean(frame, m)]}})

\* failure_analysis.py lines 120-125: _pattern_to_name of a row's six flags:
\* the modes that failed, in order, and a name of its own for the row that
\* failed none
PatternToName(row) ==
    IF \A k \in DOMAIN FAILURE_MODE_NAMES : row[FAILURE_MODE_NAMES[k]] = 0
    THEN <<"No Failures">>
    ELSE SelectSeq(FAILURE_MODE_NAMES, LAMBDA m : row[m] = 1)

\* failure_analysis.py lines 109-117: the rows of a pattern
PatternRows(frame, name) == {i \in DOMAIN frame : PatternToName(frame[i]) = name}

\* failure_analysis.py lines 111-116: the index labels of the rows of a
\* pattern, in the order the loop appends them; the index of a data set
\* read from a file counts from 0
PatternIndices(frame, name) ==
    SelectSeq([i \in DOMAIN frame |-> i - 1],
              LAMBDA idx : PatternToName(frame[idx + 1]) = name)

\* the groups of a data set in the order the loop first meets them
PatternsUnsorted(frame, pattern_names) ==
    LET first(n) == SetMin(PatternRows(frame, n))
        rank(n) == 1 + Cardinality({o \in pattern_names : first(o) < first(n)})
    IN  [p \in 1..Cardinality(pattern_names) |->
            [name |-> CHOOSE n \in pattern_names : rank(n) = p,
             rows |-> PatternIndices(frame, CHOOSE n \in pattern_names : rank(n) = p)]]
\* failure_analysis.py lines 109-118: identify_failure_patterns, given the
\* names met: one group per name, sorted by size, the larger first; the sort
\* is stable, so groups of one size keep the order in which the loop first
\* met them
Patterns(frame, pattern_names) ==
    LET size(n) == Cardinality(PatternRows(frame, n))
        first(n) == SetMin(PatternRows(frame, n))
        rank(n) == 1 + Cardinality({o \in pattern_names :
                          \/ size(o) > size(n)
                          \/ size(o) = size(n) /\ first(o) < first(n)})
    IN  [p \in 1..Cardinality(pattern_names) |->
            [name |-> CHOOSE n \in pattern_names : rank(n) = p,
             rows |-> PatternIndices(frame, CHOOSE n \in pattern_names : rank(n) = p)]]

\* failure_analysis.py lines 109-118: identify_failure_patterns
IdentifyFailurePatterns(frame) ==
    TheOne({Patterns(frame, pattern_names) :
               pattern_names \in {{PatternToName(frame[i]) : i \in DOMAIN frame}}})

\* a recommendation: which rule spoke, the mode it cites and the rate it
\* prints
Recommendation(kind, mode, rate) == [kind |-> kind, mode |-> mode, rate |-> rate]

\* recommendations that call a failure rate of one half high
GenerateRecommendationsFromHalf(the_summary, no_failures) ==
    LET most_common == the_summary.most_common_failures[1]
    IN  <<Recommendation("focus", most_common,
                         the_summary.failure_mode_rates[most_common])>>
        \o (IF no_failures > 0
            THEN <<Recommendation("good_news", "",
                                  [num |-> no_failures,
                                   den |-> the_summary.total_samples])>>
            ELSE <<>>)
        \o (IF ~Less(the_summary.overall_failure_rate, [num |-> 1, den |-> 2])
            THEN <<Recommendation("high_failure_rate", "",
                                  the_summary.overall_failure_rate)>>
            ELSE <<>>)
        \o (IF ~the_summary.target_met
            THEN <<Recommendation("target_not_met", "",
                                  the_summary.target_failure_rate)>>
            ELSE <<>>)
\* failure_analysis.py lines 146-158: _generate_recommendations
GenerateRecommendations(the_summary, no_failures) ==
    LET most_common == the_summary.most_common_failures[1]
    IN  <<Recommendation("focus", most_common,
                         the_summary.failure_mode_rates[most_common])>>
        \o (IF no_failures > 0
            THEN <<Recommendation("good_news", "",
                                  [num |-> no_failures,
                                   den |-> the_summary.total_samples])>>
            ELSE <<>>)
        \o (IF Greater(the_summary.overall_failure_rate, [num |-> 1, den |-> 2])
            THEN <<Recommendation("high_failure_rate", "",
                                  the_summary.overall_failure_rate)>>
            ELSE <<>>)
        \o (IF ~the_summary.target_met
            THEN <<Recommendation("target_not_met", "",
                                  the_summary.target_failure_rate)>>
            ELSE <<>>)

\* failure_analysis.py lines 127-144: generate_detailed_report, as far as
\* its summary, its patterns and its recommendations
GenerateDetailedReport(frame) ==
    TheOne({[summary |-> the_summary,
             detailed_patterns |-> IdentifyFailurePatterns(frame),
             recommendations |->
                 GenerateRecommendations(
                     the_summary, Cardinality(PatternRows(frame, <<"No Failures">>)))] :
               the_summary \in {GenerateFailureSummary(frame)}})

\* a row of the labeled data as the analyzer reads it: the six flags and
\* overall_failure as evaluate_qa_pair derives it; failed is the set of the
\* modes flagged
LabeledRow(failed) ==
    [c \in {FAILURE_MODE_NAMES[k] : k \in DOMAIN FAILURE_MODE_NAMES}
           \cup {"overall_failure"} |->
        IF c = "overall_failure" THEN OverallFailure(Cardinality(failed))
        ELSE IF c \in failed THEN 1 ELSE 0]

\* the rows of the small data sets: no failure, the second mode alone, the
\* first two modes, the last mode alone, the third and the fifth mode
SmallRows ==
    {LabeledRow({}), LabeledRow({"safety_violations"}),
     LabeledRow({"incomplete_answer", "safety_violations"}),
     LabeledRow({"poor_quality_tips"}),
     LabeledRow({"unrealistic_tools", "missing_context"})}

\* the sizes of the large data sets: the smallest size at which one failure
\* meets the target, the size of the spec's example, and the smallest size
\* at which a rate can equal the target (79/1250)
BoundarySizes == {16, 300, 1250}

\* a data set of n rows, the first failed of them failing the second mode
BoundaryData(failed, n) ==
    [i \in 1..n |-> IF i <= failed THEN LabeledRow({"safety_violations"})
                    ELSE LabeledRow({})]

AnalysisInit ==
    /\ pc = "analysis_start"
    /\ df \in (SeqUpTo(SmallRows, MaxRows) \ {<<>>})
              \cup {BoundaryData(f, n) : f \in 0..MaxFailed, n \in BoundarySizes}
    /\ report = NotReturned
    /\ OnlyAnalysis

\* failure_analysis.py lines 187-207: run_failure_analysis on a data set
\* that is there
Analyze ==
    /\ pc = "analysis_start"
    /\ report' = GenerateDetailedReport(df)
    /\ pc' = "analysis_done"
    /\ UNCHANGED <<df, restOfAnalysis>>

AnalysisNext == Analyze

SpecAnalysis == AnalysisInit /\ [][AnalysisNext]_vars

(***************************************************************************)
(* Properties of the analyzer                                              *)
(***************************************************************************)
\* the number of rows of df marked overall_failure = 1
FailedRecords == Cardinality({i \in DOMAIN df : df[i].overall_failure = 1})

\* C12: target_met is true if and only if failed records / total records is
\* strictly less than 6.32%, that is 632/10000.
C12_TargetMetStrict ==
    pc = "analysis_done" =>
        (report.summary.target_met <=> FailedRecords * 10000 < 632 * Len(df))

\* C12 witness: a data set whose failure rate is exactly 6.32% (79 failed
\* of 1250) was found not to meet the target
C12_Witness ==
    /\ pc = "analysis_done"
    /\ FailedRecords * 10000 = 632 * Len(df)
    /\ ~report.summary.target_met

\* the number of rows of df that fail mode m
ModeFailures(m) == Cardinality({i \in DOMAIN df : df[i][m] = 1})

\* C13: the first recommendation cites a mode that no mode exceeds in
\* failure rate, and of the modes of that rate the one declared first.
C13_CitesTopMode ==
    pc = "analysis_done" =>
        \E k \in DOMAIN FAILURE_MODE_NAMES :
            /\ report.recommendations[1].kind = "focus"
            /\ report.recommendations[1].mode = FAILURE_MODE_NAMES[k]
            /\ \A j \in DOMAIN FAILURE_MODE_NAMES :
                  /\ ModeFailures(FAILURE_MODE_NAMES[j])
                        <= ModeFailures(FAILURE_MODE_NAMES[k])
                  /\ j < k => ModeFailures(FAILURE_MODE_NAMES[j])
                                 < ModeFailures(FAILURE_MODE_NAMES[k])

\* C13 witness: the first two modes fail equally often, and more often than
\* the last, which fails too; the first is cited
C13_Witness ==
    /\ pc = "analysis_done"
    /\ ModeFailures("incomplete_answer") = ModeFailures("safety_violations")
    /\ ModeFailures("incomplete_answer") > ModeFailures("poor_quality_tips")
    /\ ModeFailures("poor_quality_tips") > 0
    /\ report.recommendations[1].mode = "incomplete_answer"

(***************************************************************************)
(* main.py: the stages that one invocation runs, and the merge script run  *)
(* between invocations; the files of the output directory carry the data   *)
(* from one process to the next                                            *)
(***************************************************************************)
\* str(uuid.uuid4()): the n-th identifier drawn; no two are equal
Uuid(n) == "u" \o ToString(n)

\* main.py lines 28-33: the stage flags
StageFlags ==
    {"generation_only", "validation_only", "labeling_only", "analysis_only",
     "correction_only"}

\* main.py lines 25-37: the parsed command line: the stage flag given, if
\* any, --input-qa (empty when not given) and --samples
Args ==
    {a \in [flag : StageFlags \cup {""},
            input_qa : {"", "qa_after_correction"},
            samples : 0..MaxSamples] :
        \* an option that the run does not read is not varied
        /\ a.flag = "validation_only" => a.samples = 1
        /\ a.flag \in {"validation_only", "generation_only"} => a.input_qa = ""}

\* no process runs: before the first invocation and after an exit
AtShell == pc \in {"shell", "exit_0", "exit_1", "merge_exit_0", "merge_exit_1"}

\* generation_phase.py lines 87-133: generate_single_qa, given the gateway's
\* outcome
GenerateSingleQaNoTrace(trace_id, outcome) ==
    IF outcome.raised THEN ResultOfFailure("", outcome.text)
    ELSE ResultOfText(trace_id, outcome.text)
GenerateSingleQa(trace_id, outcome) ==
    IF outcome.raised
    THEN \* lines 125-133
         ResultOfFailure(trace_id, outcome.text)
    ELSE \* lines 111-123
         ResultOfText(trace_id, outcome.text)

\* generation_phase.py lines 135-156: generate_batch; first is the number of
\* the first identifier drawn
GenerateBatch(first, outcomes) ==
    [i \in DOMAIN outcomes |-> GenerateSingleQa(Uuid(first + i - 1), outcomes[i])]

\* main.py lines 101-104: an item of generation_results.json made a
\* GenerationResult again; DIYRepairQA(**item['qa_pair']) validates the
\* stored record once more
LoadResult(item) ==
    IF item.qa_pair = None THEN [ok |-> TRUE, result |-> item]
    ELSE LET made == DIYRepairQA(item.qa_pair)
         IN  [ok |-> made.ok, result |-> [item EXCEPT !.qa_pair = made.obj]]

\* validation_phase.py lines 109-110: qa_dict of a valid result
SavedRecord(result) == ("trace_id" :> result.trace_id) @@ result.qa_pair

\* validation_phase.py lines 104-114: save_valid_data
SaveValidData(valid) ==
    LET kept == SelectSeq(valid, LAMBDA r : r.qa_pair # None)
    IN  [i \in DOMAIN kept |-> SavedRecord(kept[i])]

\* failure_labeling.py line 252: the record's fields without its trace_id
QaFields(qa_dict) == [k \in DOMAIN qa_dict \ {"trace_id"} |-> qa_dict[k]]

\* failure_labeling.py line 253: qa_dict.get('trace_id', str(uuid.uuid4()))
LabelTraceIdAlwaysNew(qa_dict, fresh) == fresh
LabelTraceId(qa_dict, fresh) ==
    IF "trace_id" \in DOMAIN qa_dict THEN qa_dict.trace_id ELSE fresh

\* failure_labeling.py lines 219-223: what the six calls of the loop give,
\* in the order of self.failure_modes
ModeResults(outcomes) ==
    [k \in DOMAIN FAILURE_MODE_NAMES |-> EvaluateSingleFailureMode(outcomes[k])]

RECURSIVE SumScores(_, _)
\* failure_count after the first k turns of the loop
SumScores(got, k) == IF k = 0 THEN 0 ELSE SumScores(got, k - 1) + got[k].score

\* failure_labeling.py lines 208-226: the results dict of evaluate_qa_pair:
\* the record's fields under its trace id, a flag and a raw response per
\* mode, and the two derived fields. An exception of
\* evaluate_single_failure_mode would leave the function
ResultsDict(qa_pair, trace_id, got) ==
    LET modes == DOMAIN FAILURE_MODE_NAMES
        count == SumScores(got, Len(FAILURE_MODE_NAMES))
    IN  [exc |-> \E k \in modes : got[k].exc,
         row |-> ("trace_id" :> trace_id) @@ qa_pair
                 @@ [name \in {FAILURE_MODE_NAMES[k] : k \in modes} |->
                        got[CHOOSE k \in modes : FAILURE_MODE_NAMES[k] = name].score]
                 @@ [key \in {ResponseKey(FAILURE_MODE_NAMES[k]) : k \in modes} |->
                        got[CHOOSE k \in modes :
                               ResponseKey(FAILURE_MODE_NAMES[k]) = key].raw]
                 @@ ("overall_failure" :> OverallFailure(count))
                 @@ ("failure_count" :> count)]

\* failure_labeling.py lines 206-226: evaluate_qa_pair, given the gateway's
\* outcome on each of the six calls
EvaluateQaPair(qa_pair, trace_id, outcomes) ==
    TheOne({ResultsDict(qa_pair, trace_id, got) : got \in {ModeResults(outcomes)}})

RECURSIVE Concat(_)
Concat(seqs) == IF seqs = <<>> THEN <<>> ELSE Head(seqs) \o Concat(Tail(seqs))

\* failure_labeling.py lines 252-255: one turn of the loop of
\* create_failure_labeled_dataframe; a record that DIYRepairQA rejects
\* raises
LabelRecord(qa_dict, script, fresh) ==
    LET made == DIYRepairQA(QaFields(qa_dict))
    IN  IF ~made.ok THEN [exc |-> TRUE, row |-> EmptyDict]
        ELSE EvaluateQaPair(made.obj, LabelTraceId(qa_dict, fresh), script)

\* a loop that issues a call that raised once more
LabeledDataRetrying(turns, scripts) ==
    LET raising == {i \in DOMAIN turns : turns[i].exc}
        reached == IF raising = {} THEN Len(turns) ELSE SetMin(raising) - 1
        calls == Concat([i \in 1..reached |-> scripts[i]])
    IN  [exc |-> raising # {},
         rows |-> [i \in 1..reached |-> turns[i].row],
         calls |-> calls \o SelectSeq(calls, LAMBDA call : call.raised)]

\* failure_labeling.py lines 249-257: the rows of the turns up to the first
\* that raises, and the gateway calls made for them
LabeledData(turns, scripts) ==
    LET raising == {i \in DOMAIN turns : turns[i].exc}
        reached == IF raising = {} THEN Len(turns) ELSE SetMin(raising) - 1
    IN  [exc |-> raising # {},
         rows |-> [i \in 1..reached |-> turns[i].row],
         calls |-> Concat([i \in 1..reached |-> scripts[i]])]

\* failure_labeling.py lines 245-262: create_failure_labeled_dataframe;
\* fresh is the number of the next identifier uuid4 would give
CreateFailureLabeledDataframe(qa_data, scripts, fresh) ==
    TheOne({LabeledData(turns, scripts) :
               turns \in {[i \in DOMAIN qa_data |->
                              LabelRecord(qa_data[i], scripts[i],
                                          Uuid(fresh + i - 1))]}})

\* correction_phase.py line 141: the rows with overall_failure == 1
FailedPairs(all_pairs) == SelectSeq(all_pairs, LAMBDA p : p.overall_failure = 1)

\* correction_phase.py lines 75-101: correct_single_qa, given the gateway's
\* outcome; nothing catches what the call at line 83 raises
CorrectSingleQa(failed_qa_pair, outcome) ==
    IF outcome.raised THEN [exc |-> TRUE, result |-> None]
    ELSE LET v == ValidateJsonStructure(outcome.text)
         IN  [exc |-> FALSE,
              result |->
                  [trace_id |-> IF "trace_id" \in DOMAIN failed_qa_pair
                                THEN failed_qa_pair.trace_id ELSE "",
                   qa_pair |-> v.qa_pair,
                   is_valid |-> v.is_valid,
                   validation_errors |-> v.errors]]

\* correction_phase.py lines 105-111: the results of the turns of the loop
\* of correct_batch; an exception of correct_single_qa leaves the loop and
\* the function, the results list with it
CorrectedBatch(turns, outcomes) ==
    LET raising == {i \in DOMAIN turns : turns[i].exc}
    IN  IF raising = {}
        THEN [exc |-> FALSE,
              results |-> [i \in DOMAIN turns |-> turns[i].result],
              calls |-> outcomes]
        ELSE [exc |-> TRUE, results |-> <<>>,
              calls |-> SubSeq(outcomes, 1, SetMin(raising))]

\* correction_phase.py lines 103-111: correct_batch
CorrectBatch(failed_qa_pairs, outcomes) ==
    TheOne({CorrectedBatch(turns, outcomes) :
               turns \in {[i \in DOMAIN failed_qa_pairs |->
                              CorrectSingleQa(failed_qa_pairs[i], outcomes[i])]}})

\* what the gateway does on a generation call: a record with every field at
\* its minimum, text that is no JSON, a rate-limit error
GenOutcomes ==
    {Returned(Object(GoodData)), Returned(Malformed), Raised(<<"4", "2", "9">>)}

\* what the gateway does on the six calls for one record: six passes; a fail
\* on the second mode; a rate-limit error on the third call
AllPass == [k \in DOMAIN FAILURE_MODE_NAMES |-> Returned(<<"0">>)]
JudgeScripts ==
    {AllPass,
     [AllPass EXCEPT ![2] = Returned(<<"1">>)],
     [AllPass EXCEPT ![3] = Raised(<<"4", "2", "9">>)]}

\* what the gateway does on a correction call: a record that differs from
\* the generated one in its answer, text that is no JSON, a rate-limit error
CorrectedData == [GoodData EXCEPT !.answer = Text(0, FieldMin["answer"] + 1, 0)]
CorrOutcomes ==
    {Returned(Object(CorrectedData)), Returned(Malformed),
     Raised(<<"4", "2", "9">>)}

\* what the pipeline leaves alone: the variables of the single-function
\* specifications
restOfPipeline ==
    <<judge_in, results, failure_count, mode_idx, evalVars, validateVars, batch,
      df, orderVars, moreVars>>

PipelineInit ==
    /\ pc = "shell"
    /\ MergeIdle /\ JudgeIdle /\ EvalIdle /\ ValidateIdle /\ BatchIdle /\ MainIdle
    /\ AnalysisIdle /\ OrderIdle
    /\ MoreIdle

\* main.py lines 21-50: a run of main.py starts; nothing of an earlier
\* process is in memory. Identifiers are drawn while any are left
InvokeMain ==
    /\ AtShell
    /\ args' \in {a \in Args : a.flag = "validation_only"
                                \/ next_uuid + a.samples - 1 <= MaxUuid}
    /\ gen_results' = <<>> /\ valid_results' = <<>> /\ gateway_log' = <<>>
    /\ pc' = IF args'.flag = "validation_only" THEN "main_validation"
             ELSE "main_generation"
    /\ UNCHANGED <<mergeVars, summary, generation_file, next_uuid, restOfPipeline, report>>

\* main.py lines 53-81: the generation phase
GenerationPhase ==
    /\ pc = "main_generation"
    /\ \E outcomes \in [1..args.samples -> GenOutcomes] :
          /\ gateway_log' = outcomes
          /\ next_uuid' = next_uuid + args.samples
          /\ IF args.samples = 0
             THEN \* generation_phase.py line 192 divides by len(results);
                  \* main.py lines 74-76
                  /\ pc' = "exit_1"
                  /\ UNCHANGED <<gen_results, generation_file, files>>
             ELSE /\ gen_results' = GenerateBatch(next_uuid, outcomes)
                  /\ generation_file' = gen_results'
                  /\ files' = files \cup {"generation_results"}
                  /\ pc' = IF args.flag = "generation_only" THEN "exit_0"
                           ELSE "main_validation"
    /\ UNCHANGED <<valid_qa, failure_labeled, corrected_list, merged>>
    /\ UNCHANGED <<valid_results, summary, args, restOfPipeline, report>>

\* main.py lines 96-104: the results read back from generation_results.json
LoadResults(items) ==
    TheOne({[ok |-> \A i \in DOMAIN loaded : loaded[i].ok,
             results |-> [i \in DOMAIN loaded |-> loaded[i].result]] :
               loaded \in {[i \in DOMAIN items |-> LoadResult(items[i])]}})

\* validation_phase.py lines 54-80 as main.py line 107 runs it: the result
\* objects as validate_batch leaves them, the list and the summary it
\* returns
RunValidationPhase(rs) ==
    TheOne({[marked |-> [i \in DOMAIN rs |->
                            IF verdicts[i].ok THEN rs[i]
                            ELSE MarkInvalid(rs[i], verdicts[i])],
             valid_results |-> SelectSeq(rs, LAMBDA r : ValidateStructure(r).ok),
             summary |-> Summary(rs, SelectSeq(rs, LAMBDA r : ValidateStructure(r).ok))] :
               verdicts \in {[i \in DOMAIN rs |-> ValidateStructure(rs[i])]}})

\* main.py lines 84-127: the validation phase; generation_results is None
\* exactly under --validation-only
ValidationPhase ==
    /\ pc = "main_validation"
    /\ \E loaded \in {IF args.flag = "validation_only"
                       THEN LoadResults(generation_file)
                       ELSE [ok |-> TRUE, results |-> gen_results]} :
          IF args.flag = "validation_only"
             /\ ("generation_results" \notin files \/ ~loaded.ok)
          THEN \* lines 91-94, and lines 120-122 for a record that
               \* DIYRepairQA rejects
               /\ pc' = "exit_1"
               /\ UNCHANGED <<files, valid_qa, gen_results, valid_results, summary>>
          ELSE \E done \in {RunValidationPhase(loaded.results)} :
                  /\ gen_results' = done.marked
                  /\ valid_results' = done.valid_results
                  /\ summary' = done.summary
                  /\ valid_qa' = SaveValidData(done.valid_results)
                  /\ files' = files \cup {"structurally_valid_qa",
                                          "validation_summary"}
                  /\ pc' = IF args.flag = "validation_only" THEN "exit_0"
                           ELSE "main_labeling"
    /\ UNCHANGED <<failure_labeled, corrected_list, merged, gateway_log>>
    /\ UNCHANGED <<mainVars, restOfPipeline, report>>

\* main.py line 135: qa_path
LabelInput ==
    IF args.input_qa = "" THEN "structurally_valid_qa" ELSE args.input_qa

\* the records of a Q&A file of the output directory
QaFile(name) == IF name = "structurally_valid_qa" THEN valid_qa ELSE merged

\* failure_labeling.py lines 229-242: load_structurally_valid_data
LoadStructurallyValidData(name) == IF name \in files THEN QaFile(name) ELSE <<>>

\* main.py lines 130-162 and 165: the failure labeling phase
LabelingPhase ==
    /\ pc = "main_labeling"
    /\ \E qa_data \in {LoadStructurallyValidData(LabelInput)} :
          IF qa_data = <<>>
          THEN \* lines 138-140: no record, no call
               /\ pc' = "exit_1"
               /\ gateway_log' = <<>>
               /\ UNCHANGED <<files, failure_labeled>>
          ELSE \E scripts \in [DOMAIN qa_data -> JudgeScripts] :
               \E failure_df \in {CreateFailureLabeledDataframe(qa_data, scripts, next_uuid)} :
                  /\ gateway_log' = failure_df.calls
                  /\ IF failure_df.exc
                     THEN \* lines 155-157
                          /\ pc' = "exit_1"
                          /\ UNCHANGED <<files, failure_labeled>>
                     ELSE /\ failure_labeled' = failure_df.rows
                          /\ files' = files \cup {"failure_labeled_csv",
                                                  "failure_labeled_json"}
                          /\ pc' = IF args.flag = "labeling_only" THEN "exit_0"
                                   ELSE IF args.flag = "correction_only"
                                   THEN "main_correction_only"
                                   ELSE "main_analysis"
    /\ UNCHANGED <<valid_qa, corrected_list, merged>>
    /\ UNCHANGED <<gen_results, valid_results, summary, mainVars, restOfPipeline, report>>

\* failure_analysis.py lines 187-211: run_failure_analysis, which catches
\* whatever goes wrong in it and returns
RunFailureAnalysis ==
    IF "failure_labeled_csv" \in files
    THEN /\ report' = GenerateDetailedReport(failure_labeled)
         /\ files' = files \cup {"failure_analysis_report"}
    ELSE \* lines 208-209: the message is printed and the function returns
         UNCHANGED <<files, report>>

\* main.py lines 184-193: the analysis phase
AnalysisPhase ==
    /\ pc = "main_analysis"
    /\ RunFailureAnalysis
    /\ pc' = "main_correction"
    /\ UNCHANGED <<valid_qa, failure_labeled, corrected_list, merged, gateway_log>>
    /\ UNCHANGED <<gen_results, valid_results, summary, mainVars, restOfPipeline>>

\* a run of python -m diy_repair.failure_analysis starts
InvokeAnalysis ==
    /\ AtShell
    /\ args' = None
    /\ gen_results' = <<>> /\ valid_results' = <<>> /\ gateway_log' = <<>>
    /\ pc' = "analysis_main"
    /\ UNCHANGED <<mergeVars, summary, generation_file, next_uuid, restOfPipeline, report>>

\* failure_analysis.py lines 214-215: the module run as a script calls
\* run_failure_analysis and ends; nothing sets an exit status, so it is 0
AnalysisMain ==
    /\ pc = "analysis_main"
    /\ RunFailureAnalysis
    /\ pc' = "exit_0"
    /\ UNCHANGED <<valid_qa, failure_labeled, corrected_list, merged, gateway_log>>
    /\ UNCHANGED <<gen_results, valid_results, summary, mainVars, restOfPipeline>>

\* main.py lines 165-181 and 196-209, correction_phase.py lines 128-152: the
\* correction phase. An exception of correct_batch passes through
\* run_correction_phase, before save_results, to main, which exits with 1
CorrectionPhase ==
    /\ pc \in {"main_correction_only", "main_correction"}
    /\ \E failed_qa_pairs \in {FailedPairs(failure_labeled)} :
          IF failed_qa_pairs = <<>>
          THEN \* correction_phase.py lines 142-146
               /\ corrected_list' = <<>>
               /\ files' = files \cup {"corrected_qa"}
               /\ gateway_log' = <<>>
               /\ pc' = "exit_0"
          ELSE \E outcomes \in [DOMAIN failed_qa_pairs -> CorrOutcomes] :
               \E done \in {CorrectBatch(failed_qa_pairs, outcomes)} :
                  /\ gateway_log' = done.calls
                  /\ IF done.exc
                     THEN /\ pc' = "exit_1"
                          /\ UNCHANGED <<files, corrected_list>>
                     ELSE /\ corrected_list' = done.results
                          /\ files' = files \cup {"corrected_qa"}
                          /\ pc' = "exit_0"
    /\ UNCHANGED <<valid_qa, failure_labeled, merged>>
    /\ UNCHANGED <<gen_results, valid_results, summary, mainVars, restOfPipeline, report>>

\* a run of scripts/merge_corrected_qa.py starts
InvokeMerge ==
    /\ AtShell
    /\ args' = None
    /\ gen_results' = <<>> /\ valid_results' = <<>> /\ gateway_log' = <<>>
    /\ pc' = "merge_start"
    /\ UNCHANGED <<mergeVars, summary, generation_file, next_uuid, restOfPipeline, report>>

PipelineNext ==
    \/ InvokeMain \/ GenerationPhase \/ ValidationPhase \/ LabelingPhase
    \/ AnalysisPhase \/ CorrectionPhase
    \/ InvokeAnalysis \/ AnalysisMain
    \/ InvokeMerge \/ MergeMissingInput \/ Merge

SpecPipeline == PipelineInit /\ [][PipelineNext]_vars

\* a process that has started runs on to its end; when the operator starts
\* the next run is up to the operator, and nothing in the programs starts one
PipelineFairness ==
    /\ WF_vars(GenerationPhase) /\ WF_vars(ValidationPhase)
    /\ WF_vars(LabelingPhase) /\ WF_vars(AnalysisPhase)
    /\ WF_vars(CorrectionPhase) /\ WF_vars(AnalysisMain)
    /\ WF_vars(MergeMissingInput) /\ WF_vars(Merge)

SpecPipelineFair == SpecPipeline /\ PipelineFairness

(***************************************************************************)
(* scripts/human_labeling.py: the labeling sessions of a human             *)
(***************************************************************************)
\* how many samples the pipeline has left for labeling, over all sessions
MaxSampleIds == 2

\* failure_labeling.py lines 151-162 and human_labeling.py line 21
CODE_TO_NAME ==
    [ia |-> "incomplete_answer", sv |-> "safety_violations",
     ut |-> "unrealistic_tools", os |-> "overcomplicated_solution",
     mc |-> "missing_context", pt |-> "poor_quality_tips"]

\* str.lower on the words typed
Lower(word) == IF word = "IA" THEN "ia" ELSE IF word = "Q" THEN "q" ELSE word

\* what the labeler types at the codes prompt, as the words of the line
\* (commas taken for blanks): nothing, a code, a code in capitals and a
\* word that is no code, codes with one repeated, q, Q
RawInputs ==
    {<<>>, <<"ia">>, <<"IA", "xx">>, <<"sv", "pt", "sv">>, <<"q">>, <<"Q">>}

\* human_labeling.py line 107: raw.lower() == "q"
IsQuit(raw) == Len(raw) = 1 /\ Lower(raw[1]) = "q"

\* human_labeling.py lines 68-77: parse_codes
ParseCodes(raw) ==
    LET known == SelectSeq(raw, LAMBDA part : Lower(part) \in DOMAIN CODE_TO_NAME)
    IN  [k \in DOMAIN known |-> CODE_TO_NAME[Lower(known[k])]]

\* what the labeler types at the comment prompt: nothing, or a comment
Comments == {None, [text |-> "why"]}

\* human_labeling.py lines 115-121: the label dict
Label(trace_id, the_names, comment) ==
    LET flag(m) == IF \E k \in DOMAIN the_names : the_names[k] = m THEN 1 ELSE 0
        modes == {FAILURE_MODE_NAMES[k] : k \in DOMAIN FAILURE_MODE_NAMES}
    IN  [f \in modes \cup {"trace_id", "comment", "overall_failure"} |->
            IF f = "trace_id" THEN trace_id
            ELSE IF f = "comment" THEN comment
            ELSE IF f = "overall_failure"
            THEN (IF \E m \in modes : flag(m) = 1 THEN 1 ELSE 0)
            ELSE flag(f)]

\* human_labeling.py lines 34-45: what load_samples finds: the samples of
\* the pipeline's last run, each under its own trace id, or none
SampleSets ==
    {s \in SeqUpTo({[trace_id |-> Uuid(n)] : n \in 1..MaxSampleIds}, MaxSampleIds) :
        \A i, j \in DOMAIN s : i # j => s[i].trace_id # s[j].trace_id}

\* human_labeling.py lines 48-55 and 139: list(existing.values()) of the
\* dict made of the entries: one label per trace id, in the order in which
\* the ids are first met, the last entry of an id winning
ExistingLabels(entries) ==
    LET firsts == SelectSeq([i \in DOMAIN entries |-> i],
                            LAMBDA i : \A j \in 1..(i - 1) :
                                          entries[j].trace_id # entries[i].trace_id)
        last(i) == SetMax({j \in DOMAIN entries :
                              entries[j].trace_id = entries[i].trace_id})
    IN  [k \in DOMAIN firsts |-> entries[last(firsts[k])]]

\* human_labeling.py lines 131-132
ToLabel(loaded, entries) ==
    SelectSeq(loaded, LAMBDA s : \A j \in DOMAIN entries :
                                    entries[j].trace_id # s.trace_id)

\* human_labels.json: absent, whole, or cut short by a write that did not
\* end, which json.load does not read
File(state, entries) == [state |-> state, entries |-> entries]

OnlyHuman ==
    /\ MergeIdle /\ JudgeIdle /\ EvalIdle /\ ValidateIdle /\ BatchIdle
    /\ MainIdle /\ AnalysisIdle /\ OrderIdle /\ PromptIdle
restOfHuman ==
    <<mergeVars, judgeVars, evalVars, validateVars, batchVars, mainVars,
      analysisVars, orderVars, promptVars>>

HumanInit ==
    /\ pc = "labeling_shell"
    /\ HumanIdle
    /\ OnlyHuman

\* the process ends: what it held in memory is gone
EndOfSession ==
    /\ pc' = "labeling_shell"
    /\ samples' = <<>> /\ to_label' = <<>> /\ labels_list' = <<>> /\ names' = <<>>

\* human_labeling.py lines 124-139: a session starts
InvokeLabeling ==
    /\ pc = "labeling_shell"
    /\ \E loaded \in SampleSets :
          IF loaded = <<>> \/ human_labels.state = "partial"
             \/ ToLabel(loaded, human_labels.entries) = <<>>
          THEN \* lines 126-128: no samples; line 54: json.load raises and
               \* the script ends; lines 133-135: nothing left to label
               EndOfSession
          ELSE /\ samples' = loaded
               /\ to_label' = ToLabel(loaded, human_labels.entries)
               /\ labels_list' = ExistingLabels(human_labels.entries)
               /\ names' = <<>>
               /\ pc' = "labeling_prompt"
    /\ UNCHANGED <<human_labels, restOfHuman>>

\* human_labeling.py lines 105-111 and 115-121, 145-146: the labeler
\* answers the codes prompt
EnterCodes ==
    /\ pc = "labeling_prompt"
    /\ \E raw \in RawInputs :
          IF IsQuit(raw)
          THEN \* lines 107-108 and 148-150
               EndOfSession
          ELSE IF ParseCodes(raw) = <<>>
          THEN /\ labels_list' =
                     Append(labels_list, Label(Head(to_label).trace_id, <<>>, None))
               /\ pc' = "labeling_save"
               /\ UNCHANGED <<samples, to_label, names>>
          ELSE /\ names' = ParseCodes(raw)
               /\ pc' = "labeling_comment"
               /\ UNCHANGED <<samples, to_label, labels_list>>
    /\ UNCHANGED <<human_labels, restOfHuman>>

\* human_labeling.py lines 112-121 and 145-146: the labeler answers the
\* comment prompt
EnterComment ==
    /\ pc = "labeling_comment"
    /\ \E comment \in Comments :
          labels_list' =
              Append(labels_list, Label(Head(to_label).trace_id, names, comment))
    /\ names' = <<>>
    /\ pc' = "labeling_save"
    /\ UNCHANGED <<samples, to_label, human_labels, restOfHuman>>

\* human_labeling.py line 63: open(path, "w") empties the file
OpenLabelsFile ==
    /\ pc = "labeling_save"
    /\ human_labels' = File("partial", <<>>)
    /\ pc' = "labeling_write"
    /\ UNCHANGED <<samples, to_label, labels_list, names, restOfHuman>>

\* human_labeling.py lines 64-65 and 141: json.dump has written the list and
\* the file is closed; the loop goes on to the next sample or ends
WriteLabels ==
    /\ pc = "labeling_write"
    /\ human_labels' = File("whole", labels_list)
    /\ IF Tail(to_label) = <<>>
       THEN EndOfSession
       ELSE /\ to_label' = Tail(to_label)
            /\ pc' = "labeling_prompt"
            /\ UNCHANGED <<samples, labels_list, names>>
    /\ UNCHANGED restOfHuman

\* human_labeling.py lines 106, 113 and 148-150: input() meets the end of
\* the input or an interrupt while it waits
EndOfInput ==
    /\ pc \in {"labeling_prompt", "labeling_comment"}
    /\ EndOfSession
    /\ UNCHANGED <<human_labels, restOfHuman>>

\* human_labeling.py lines 144-150: an interrupt arrives while the
\* statements between the prompt and the end of save_labels run; the
\* handler ends the loop, the file stays as it is at that moment
InterruptDuringSave ==
    /\ pc \in {"labeling_save", "labeling_write"}
    /\ EndOfSession
    /\ UNCHANGED <<human_labels, restOfHuman>>

HumanNext ==
    \/ InvokeLabeling \/ EnterCodes \/ EnterComment \/ OpenLabelsFile
    \/ WriteLabels \/ EndOfInput \/ InterruptDuringSave

SpecHumanLabeling == HumanInit /\ [][HumanNext]_vars

(***************************************************************************)
(* Properties of the pipeline                                              *)
(***************************************************************************)
\* the trace ids of a list of records, position by position
TraceIdsOf(s) == [i \in DOMAIN s |-> s[i].trace_id]

\* the identifiers that generation has drawn so far
DrawnIds(n) == {Uuid(k) : k \in 1..(n - 1)}

\* the rows of the judge set marked overall_failure = 1, in order
FailedRows == SelectSeq(failure_labeled, LAMBDA row : row.overall_failure = 1)

\* a step of the correction phase
CorrectionRuns == pc \in {"main_correction_only", "main_correction"}

\* C9: a trace id is drawn once, at generation, and every later stage hands
\* it on unchanged: the generation phase gives its results pairwise distinct
\* identifiers never seen before and no other stage draws one; the valid
\* set carries, in order, the trace ids of the structurally valid
\* generation results; the judge set carries, position by position, the
\* trace ids of the records it labeled; the correction set carries, in
\* order, the trace ids of the rows judged failed; the merged set carries,
\* position by position, the trace ids of the valid set.
C9_TraceIdSurvives ==
    [][/\ pc = "main_generation" /\ pc' # "exit_1" =>
             /\ Len(generation_file') = args.samples
             /\ \A i \in DOMAIN generation_file' :
                   /\ generation_file'[i].trace_id \notin DrawnIds(next_uuid)
                   /\ generation_file'[i].trace_id \in DrawnIds(next_uuid')
                   /\ \A j \in DOMAIN generation_file' :
                         generation_file'[i].trace_id = generation_file'[j].trace_id
                            => i = j
       /\ pc # "main_generation" => next_uuid' = next_uuid
       /\ pc = "main_validation" /\ pc' # "exit_1" =>
             TraceIdsOf(valid_qa')
                = TraceIdsOf(SelectSeq(generation_file, StructurallyValid))
       /\ pc = "main_labeling" /\ pc' # "exit_1" =>
             TraceIdsOf(failure_labeled')
                = TraceIdsOf(IF args.input_qa = "" THEN valid_qa ELSE merged)
       /\ CorrectionRuns /\ pc' = "exit_0" =>
             TraceIdsOf(corrected_list') = TraceIdsOf(FailedRows)
       /\ pc = "merge_start" /\ pc' = "merge_exit_0" =>
             TraceIdsOf(merged') = TraceIdsOf(valid_qa)
      ]_vars

\* C9 witness: a merge has put a correction in the place of a record, and
\* the generation result, the valid record, the failed judge row, the valid
\* correction and the merged record all carry one trace id
C9_Witness ==
    /\ pc = "merge_exit_0"
    /\ \E i \in DOMAIN merged :
          /\ merged[i] # valid_qa[i]
          /\ merged[i].trace_id = valid_qa[i].trace_id
          /\ \E g \in DOMAIN generation_file :
                generation_file[g].trace_id = merged[i].trace_id
          /\ \E j \in DOMAIN failure_labeled :
                /\ failure_labeled[j].trace_id = merged[i].trace_id
                /\ failure_labeled[j].overall_failure = 1
          /\ \E k \in DOMAIN corrected_list :
                /\ corrected_list[k].trace_id = merged[i].trace_id
                /\ corrected_list[k].is_valid

\* C10: the correction phase never aborts on a gateway failure: it ends
\* with status 0 having called the gateway once for every row judged
\* failed, and leaves a correction set with one entry per such row, in
\* order and under the row's trace id, the entry being marked is_valid =
\* false where the call raised.
C10_CorrectorCatchesGatewayFailure ==
    [][CorrectionRuns =>
          /\ pc' = "exit_0"
          /\ Len(gateway_log') = Len(FailedRows)
          /\ Len(corrected_list') = Len(FailedRows)
          /\ \A k \in DOMAIN FailedRows :
                /\ corrected_list'[k].trace_id = FailedRows[k].trace_id
                /\ gateway_log'[k].raised => ~corrected_list'[k].is_valid
      ]_vars

C18_CorrectionGatedOnOverallFailure ==
    [][CorrectionRuns =>
          /\ "corrected_qa" \in files'
          /\ TraceIdsOf(corrected_list') = TraceIdsOf(FailedRows)
          /\ Len(gateway_log') = Len(FailedRows)
          /\ FailedRows = <<>> => corrected_list' = <<>> /\ gateway_log' = <<>>
      ]_vars

\* a record in corrected form: it holds the answer that the correction
\* gateway returns, which no generated record holds
InCorrectedForm(rec) == rec.answer = DIYRepairQA(CorrectedData).obj.answer

\* the judge set holds the record as passed: a row under its trace id, with
\* its answer and overall_failure = 0
PassedJudge(rec) ==
    \E k \in DOMAIN failure_labeled :
        /\ failure_labeled[k].trace_id = rec.trace_id
        /\ failure_labeled[k].answer = rec.answer
        /\ failure_labeled[k].overall_failure = 0

\* C19: a merge never reverts a substitution: a record of the merged output
\* of the round before that is in corrected form and has passed the judge
\* since is in the merged output of this round, as it was.
C19_MergeKeepsCorrections ==
    [][(pc = "merge_start" /\ pc' = "merge_exit_0") =>
          \A i \in DOMAIN merged :
              (InCorrectedForm(merged[i]) /\ PassedJudge(merged[i])) =>
                  \E j \in DOMAIN merged' : merged'[j] = merged[i]
      ]_vars

\* the outcome of the gateway call made for mode number k
OutcomeFor(k) ==
    gateway_log[CHOOSE i \in DOMAIN call_modes :
                   call_modes[i] = FAILURE_MODE_NAMES[k]]

GroupRows(group) == {group.rows[k] : k \in DOMAIN group.rows}

\* the six flags of the row with an index label
FlagsOf(idx) == [k \in DOMAIN FAILURE_MODE_NAMES |-> df[idx + 1][FAILURE_MODE_NAMES[k]]]

\* C23: identify_failure_patterns groups the rows by their six flags: every
\* index label is in exactly one group and once in it, two rows are in the
\* same group exactly if their flags are equal (the rows of a group have the
\* flags of its first row, and the first rows of two groups differ), the
\* group of the rows without a failure is the one named "No Failures", and
\* the groups come in descending order of size.
C23_PatternsPartitionByFlags ==
    pc = "analysis_done" =>
        LET groups == report.detailed_patterns
        IN  /\ \A i \in DOMAIN df :
                  Cardinality({p \in DOMAIN groups : i - 1 \in GroupRows(groups[p])}) = 1
            /\ \A p \in DOMAIN groups :
                  /\ groups[p].rows # <<>>
                  /\ Cardinality(GroupRows(groups[p])) = Len(groups[p].rows)
                  /\ GroupRows(groups[p]) \subseteq 0..(Len(df) - 1)
                  /\ \A idx \in GroupRows(groups[p]) :
                        FlagsOf(idx) = FlagsOf(groups[p].rows[1])
                  /\ (groups[p].name = <<"No Failures">>)
                        <=> (\A k \in DOMAIN FAILURE_MODE_NAMES :
                                FlagsOf(groups[p].rows[1])[k] = 0)
            /\ \A p, q \in DOMAIN groups :
                  /\ p # q => FlagsOf(groups[p].rows[1]) # FlagsOf(groups[q].rows[1])
                  /\ p < q => Len(groups[p].rows) >= Len(groups[q].rows)

\* C23 witness: three rows, the first of a pattern of its own and the other
\* two without a failure: the larger group, met second, comes first
C23_Witness ==
    /\ pc = "analysis_done"
    /\ Len(df) = 3
    /\ Len(report.detailed_patterns) = 2
    /\ report.detailed_patterns[1] = [name |-> <<"No Failures">>, rows |-> <<1, 2>>]
    /\ report.detailed_patterns[2].rows = <<0>>

\* the modes of a list come with rates that rise (or fall) along it
RatesAscend(modes, rates) ==
    \A k \in 1..(Len(modes) - 1) : ~Greater(rates[modes[k]], rates[modes[k + 1]])
RatesDescend(modes, rates) ==
    \A k \in 1..(Len(modes) - 1) : ~Less(rates[modes[k]], rates[modes[k + 1]])

\* the modes that a list does not hold
ModesOutside(modes) ==
    {FAILURE_MODE_NAMES[k] : k \in DOMAIN FAILURE_MODE_NAMES}
        \ {modes[k] : k \in DOMAIN modes}

\* C24: the summary ranks the modes descending by rate for
\* most_common_failures, the three of the highest rates with the highest
\* first, and ascending by rate for least_common_failures, the three of the
\* lowest rates with the lowest first.
C24_MostAndLeastCommonRanked ==
    pc = "analysis_done" =>
        LET rates == report.summary.failure_mode_rates
            most == report.summary.most_common_failures
            least == report.summary.least_common_failures
        IN  /\ Len(most) = 3 /\ Len(least) = 3
            /\ RatesDescend(most, rates)
            /\ \A m \in ModesOutside(most) : ~Greater(rates[m], rates[most[3]])
            /\ RatesAscend(least, rates)
            /\ \A m \in ModesOutside(least) : ~Less(rates[m], rates[least[3]])

\* the recommendations of the report that a rule gave
Lines(kind) ==
    {k \in DOMAIN report.recommendations : report.recommendations[k].kind = kind}

\* C25: the recommendations are a fixed function of summary and patterns:
\* the line on the most common mode is always there and first; the
\* no-failure note is there exactly if the group of the all-zero pattern is
\* not empty; the "high failure rate" line exactly if more than half of the
\* rows failed; the "target not met" line, which cites the target, exactly
\* if target_met is false; no line is there twice and no other line is
\* there.
C25_RecommendationRules ==
    pc = "analysis_done" =>
        /\ Lines("focus") = {1}
        /\ Lines("good_news") # {}
              <=> \E p \in DOMAIN report.detailed_patterns :
                     /\ report.detailed_patterns[p].name = <<"No Failures">>
                     /\ report.detailed_patterns[p].rows # <<>>
        /\ Lines("high_failure_rate") # {} <=> 2 * FailedRecords > Len(df)
        /\ Lines("target_not_met") # {} <=> ~report.summary.target_met
        /\ \A k \in Lines("target_not_met") :
              report.recommendations[k].rate = TARGET_FAILURE_RATE
        /\ \A kind \in {"good_news", "high_failure_rate", "target_not_met"} :
              Cardinality(Lines(kind)) <= 1
        /\ \A k \in DOMAIN report.recommendations :
              report.recommendations[k].kind
                 \in {"focus", "good_news", "high_failure_rate", "target_not_met"}
        /\ \A k \in Lines("focus") :
              report.recommendations[k].mode = report.summary.most_common_failures[1]

\* C25 witness: exactly half of the rows failed: the no-failure note and
\* the "target not met" line are there, the "high failure rate" line is not
C25_Witness ==
    /\ pc = "analysis_done"
    /\ 2 * FailedRecords = Len(df)
    /\ Len(report.recommendations) = 3
    /\ report.recommendations[2].kind = "good_news"
    /\ report.recommendations[3].kind = "target_not_met"

\* the errors of the invalid results of the batch as validate_batch finds
\* them, each occurrence once: for a result the validator rejects, the list
\* validate_structure returns for it
Occurrences ==
    Concat([i \in DOMAIN batch |->
               IF ValidateStructure(batch[i]).ok THEN <<>>
               ELSE ValidateStructure(batch[i]).errors])

\* error a ranks before error b: it occurred more often, or as often and
\* was seen first
RanksBefore(a, b) ==
    \/ CountOf(a, Occurrences) > CountOf(b, Occurrences)
    \/ /\ CountOf(a, Occurrences) = CountOf(b, Occurrences)
       /\ FirstSeen(a, Occurrences) < FirstSeen(b, Occurrences)

\* C27: common_errors of the validation summary holds the most frequent
\* distinct errors of the batch, five at most: all of them if there are five
\* or fewer; ranked by the number of occurrences across the invalid
\* results, each occurrence counted once, errors of equal count in
\* first-seen order; an error left out ranks after every error listed.
C27_CommonErrorsRanked ==
    pc = "batch_done" =>
        LET common == summary.common_errors
            distinct == {Occurrences[i] : i \in DOMAIN Occurrences}
            listed == {common[i] : i \in DOMAIN common}
        IN  /\ listed \subseteq distinct
            /\ Len(common) = IF Cardinality(distinct) < 5 THEN Cardinality(distinct)
                              ELSE 5
            /\ \A i, j \in DOMAIN common : i < j => RanksBefore(common[i], common[j])
            /\ \A e \in distinct \ listed :
                  \A i \in DOMAIN common : RanksBefore(common[i], e)

\* C29: validate_batch leaves the error list of a result that was invalid
\* on entry as it was: the same strings with the same multiplicities, none
\* appended twice.
C29_InvalidResultKeepsErrors ==
    pc = "batch_done" =>
        \A i \in DOMAIN batch :
            ~batch[i].is_valid =>
                gen_results[i].validation_errors = batch[i].validation_errors

C28_WitnessNonObject ==
    /\ pc = "validate_done" /\ json_str.parses /\ ~json_str.object
    /\ ~validated.is_valid /\ Len(validated.errors) = 1

\* the trace ids that have a label in human_labels.json
SavedIds(file) == {file.entries[k].trace_id : k \in DOMAIN file.entries}

\* a label as the spec's schema has it: six flags in {0, 1} and
\* overall_failure = 1 exactly if a flag is 1
WellFormedLabel(label) ==
    /\ \A k \in DOMAIN FAILURE_MODE_NAMES : label[FAILURE_MODE_NAMES[k]] \in {0, 1}
    /\ label.overall_failure
          = IF \E k \in DOMAIN FAILURE_MODE_NAMES : label[FAILURE_MODE_NAMES[k]] = 1
            THEN 1 ELSE 0

\* C30: labeling sessions can be resumed without loss or duplication: no
\* sample is shown whose trace id has a saved label; when a session ends,
\* by q, end of input or interrupt, every label entered in it or loaded
\* from the file at its start is in the file; every saved label is well
\* formed; the file never holds two labels of one trace id.
C30_SessionsResumable ==
    [][/\ pc' = "labeling_prompt" =>
             Head(to_label').trace_id \notin SavedIds(human_labels')
       /\ (pc # "labeling_shell" /\ pc' = "labeling_shell") =>
             \A k \in DOMAIN labels_list :
                \E j \in DOMAIN human_labels'.entries :
                   human_labels'.entries[j] = labels_list[k]
       /\ \A k \in DOMAIN human_labels'.entries :
             WellFormedLabel(human_labels'.entries[k])
       /\ \A j, k \in DOMAIN human_labels'.entries :
             j # k => human_labels'.entries[j].trace_id
                         # human_labels'.entries[k].trace_id]_vars

\* a stage is about to look for an input file that is not there
StageInputMissing ==
    \/ /\ pc = "main_validation" /\ args.flag = "validation_only"
       /\ "generation_results" \notin files
    \/ pc = "main_labeling" /\ LabelInput \notin files
    \/ pc \in {"main_analysis", "analysis_main"} /\ "failure_labeled_csv" \notin files
    \/ /\ pc \in {"main_correction", "main_correction_only"}
       /\ "failure_labeled_json" \notin files
    \/ pc = "merge_start" /\ ~(MergeInputs \subseteq files)

\* C14: a stage that finds a required input file missing ends its process
\* with a non-zero status and writes no file.
C14_MissingInputIsFatal ==
    [][StageInputMissing =>
          /\ pc' \in {"exit_1", "merge_exit_1"}
          /\ UNCHANGED <<files, mergeVars, generation_file, report>>
      ]_vars

\* the flags said to run a later stage alone
LaterStageFlags == {"labeling_only", "analysis_only", "correction_only"}

\* C15: a run of main under --labeling-only, --analysis-only or
\* --correction-only never is in the generation or the validation phase and
\* leaves generation_results.json and structurally_valid_qa_pairs.json as
\* they were.
C15_LaterStageRunsAlone ==
    [][(args' # None /\ args'.flag \in LaterStageFlags) =>
          /\ pc' \notin {"main_generation", "main_validation"}
          /\ UNCHANGED <<generation_file, valid_qa>>
      ]_vars

\* a full run of main has ended after its correction phase, and the labeled
\* data it leaves does not meet the target
EndedShortOfTarget ==
    /\ pc = "exit_0" /\ args # None /\ args.flag = ""
    /\ "corrected_qa" \in files
    /\ ~Less(Mean(failure_labeled, "overall_failure"), TARGET_FAILURE_RATE)

\* the merged records are being labeled again
Relabeling ==
    pc = "main_labeling" /\ args.input_qa = "qa_after_correction"

\* C16: the cycle repeats until the target is met: a run of label and
\* correct that ends short of the target is followed, sooner or later, by
\* the merge and the labeling of the merged records.
C16_LoopUntilTargetMet == EndedShortOfTarget ~> Relabeling

====
